---- MODULE Spec2Model ----
(***************************************************************************)
(* Nextcloud Talk bot (app.py): the webhook handler, its command and       *)
(* completion-intent dispatch, the task completion procedure and the       *)
(* conversation store (history and key facts behind two locks), as a       *)
(* state machine of concurrent request threads.                            *)
(*                                                                         *)
(* Text is a sequence of characters; a character is a one-symbol string.   *)
(***************************************************************************)
EXTENDS Integers, Sequences, FiniteSets, TLC

\* ---------------------------------------------------------------- text

\* str.lower() on the letters the model's texts use
UpperLetters ==
  <<"A","B","C","D","E","F","G","H","I","J","K","L","M","N","O","P","Q","R","S","T","U","V","W","X","Y","Z">>
LowerLetters ==
  <<"a","b","c","d","e","f","g","h","i","j","k","l","m","n","o","p","q","r","s","t","u","v","w","x","y","z">>

LowerChar(c) ==
  IF \E i \in 1..Len(UpperLetters) : UpperLetters[i] = c
  THEN LowerLetters[CHOOSE i \in 1..Len(UpperLetters) : UpperLetters[i] = c]
  ELSE c

UpperChar(c) ==
  IF \E i \in 1..Len(LowerLetters) : LowerLetters[i] = c
  THEN UpperLetters[CHOOSE i \in 1..Len(LowerLetters) : LowerLetters[i] = c]
  ELSE c

lower(s) == [i \in 1..Len(s) |-> LowerChar(s[i])]

upper(s) == [i \in 1..Len(s) |-> UpperChar(s[i])]

IsSpace(c) == c \in {" ", "\t", "\n"}

\* str.strip(): drop leading and trailing whitespace
strip(s) ==
  IF \A i \in 1..Len(s) : IsSpace(s[i])
  THEN << >>
  ELSE LET first == CHOOSE i \in 1..Len(s) :
                      /\ ~IsSpace(s[i])
                      /\ \A j \in 1..(i-1) : IsSpace(s[j])
           last  == CHOOSE i \in 1..Len(s) :
                      /\ ~IsSpace(s[i])
                      /\ \A j \in (i+1)..Len(s) : IsSpace(s[j])
       IN  SubSeq(s, first, last)

\* s.startswith(p)
startswith(s, p) == Len(p) <= Len(s) /\ SubSeq(s, 1, Len(p)) = p

\* p in s (substring test)
Contains(p, s) ==
  \E i \in 0..(Len(s) - Len(p)) : SubSeq(s, i + 1, i + Len(p)) = p

\* s[k:]
SliceFrom(s, k) == SubSeq(s, k + 1, Len(s))

\* s.endswith(p)
endswith(s, p) ==
  Len(p) <= Len(s) /\ SubSeq(s, Len(s) - Len(p) + 1, Len(s)) = p

\* os.path.basename(path): what follows the last "/"
basename(path) ==
  IF \E i \in 1..Len(path) : path[i] = "/"
  THEN LET last == CHOOSE i \in 1..Len(path) :
                     /\ path[i] = "/"
                     /\ \A j \in (i+1)..Len(path) : path[j] # "/"
       IN  SliceFrom(path, last)
  ELSE path

\* int(s): an optional sign and a non-empty run of decimal digits;
\* anything else raises ValueError (IsInt is false)
Digits == <<"0","1","2","3","4","5","6","7","8","9">>

IsDigits(s) ==
  Len(s) > 0 /\ \A i \in 1..Len(s) : \E d \in 1..10 : Digits[d] = s[i]

IsInt(s) ==
  IF Len(s) > 0 /\ s[1] \in {"-", "+"} THEN IsDigits(Tail(s)) ELSE IsDigits(s)

DigitVal(c) == (CHOOSE d \in 1..10 : Digits[d] = c) - 1

RECURSIVE NatOf(_)
NatOf(s) == IF Len(s) = 0 THEN 0
            ELSE 10 * NatOf(SubSeq(s, 1, Len(s) - 1)) + DigitVal(s[Len(s)])

int(s) == IF s[1] = "-" THEN 0 - NatOf(Tail(s))
          ELSE IF s[1] = "+" THEN NatOf(Tail(s))
          ELSE NatOf(s)

\* --------------------------------------------------- truncate_message

\* where a slice index k falls in a list of n items: negative indices count
\* from the end, and both are clipped to the list
SliceIndex(n, k) ==
  IF k < 0 THEN (IF n + k < 0 THEN 0 ELSE n + k) ELSE (IF k > n THEN n ELSE k)

\* s[:k]
slice_to(s, k) == SubSeq(s, 1, SliceIndex(Len(s), k))

\* s[k:]
slice_from(s, k) == SubSeq(s, SliceIndex(Len(s), k) + 1, Len(s))

\* "\n...[ingekort]...\n"
ELISION ==
  <<"\n", ".", ".", ".", "[", "i", "n", "g", "e", "k", "o", "r", "t", "]",
    ".", ".", ".", "\n">>

\* A faulty variant of truncate_message, for the sensitivity run of C32: it
\* elides every content.
always_elides(content, max_length) ==
  LET half == (max_length - 20) \div 2
  IN  slice_to(content, half) \o ELISION \o slice_from(content, 0 - half)

\* truncate_message (app.py 1389-1396)
truncate_message(content, max_length) ==
  IF Len(content) <= max_length
  THEN content
  ELSE LET half == (max_length - 20) \div 2
       IN  slice_to(content, half) \o ELISION \o slice_from(content, 0 - half)

\* ------------------------------------------- detect_completion_intent

explicit_phrases ==
  << <<"t","a","a","k"," ","a","f","r","o","n","d","e","n">>,
     <<"t","a","a","k"," ","a","f","s","l","u","i","t","e","n">>,
     <<"t","a","a","k"," ","v","o","l","t","o","o","i","e","n">>,
     <<"s","l","u","i","t"," ","d","e"," ","t","a","a","k">>,
     <<"r","o","n","d"," ","d","e"," ","t","a","a","k"," ","a","f">>,
     <<"v","o","l","t","o","o","i"," ","d","e"," ","t","a","a","k">>,
     <<"m","a","r","k","e","e","r"," ","a","l","s"," ","k","l","a","a","r">>,
     <<"m","a","r","k","e","e","r"," ","a","l","s"," ","v","o","l","t","o","o","i","d">>,
     <<"m","a","r","k","e","e","r"," ","a","l","s"," ","a","f","g","e","r","o","n","d">>,
     <<"z","e","t"," ","o","p"," ","k","l","a","a","r">>,
     <<"z","e","t"," ","o","p"," ","d","o","n","e">>,
     <<"n","a","a","r"," ","k","l","a","a","r"," ","v","e","r","p","l","a","a","t","s","e","n">>,
     <<"t","a","a","k"," ","i","s"," ","k","l","a","a","r">>,
     <<"t","a","a","k"," ","i","s"," ","a","f">>,
     <<"t","a","a","k"," ","v","o","l","t","o","o","i","d">>,
     <<"d","i","t"," ","i","s"," ","k","l","a","a","r">>,
     <<"a","l","l","e","s"," ","i","s"," ","k","l","a","a","r">>,
     <<"a","l","l","e","s"," ","a","f","g","e","r","o","n","d">>,
     <<"w","e"," ","z","i","j","n"," ","k","l","a","a","r">>,
     <<"i","k"," ","b","e","n"," ","k","l","a","a","r">>,
     <<"k","l","a","a","r"," ","m","e","t"," ","d","e"," ","t","a","a","k">> >>

confirm_phrases ==
  << <<"k","u","n","n","e","n"," ","w","e"," ","a","f","r","o","n","d","e","n">>,
     <<"k","u","n","n","e","n"," ","w","e"," ","a","f","s","l","u","i","t","e","n">>,
     <<"m","a","g"," ","d","e"," ","t","a","a","k"," ","d","i","c","h","t">>,
     <<"t","a","a","k"," ","d","i","c","h","t">>,
     <<"a","f","r","o","n","d","e","n","?">>,
     <<"i","s"," ","d","e"," ","t","a","a","k"," ","k","l","a","a","r">>,
     <<"b","e","n"," ","j","e"," ","k","l","a","a","r">>,
     <<"z","i","j","n"," ","w","e"," ","k","l","a","a","r">>,
     <<"k","a","n"," ","d","i","t"," ","d","i","c","h","t">>,
     <<"s","l","u","i","t","e","n"," ","w","e"," ","a","f">> >>

\* A faulty variant of detect_completion_intent, for the sensitivity run of
\* C29: the confirmation phrases are tested first.
confirm_first(message) ==
  LET message_lower == strip(lower(message))
  IN  IF \E i \in 1..Len(confirm_phrases) :
             Contains(confirm_phrases[i], message_lower)
      THEN "confirm"
      ELSE IF \E i \in 1..Len(explicit_phrases) :
                  Contains(explicit_phrases[i], message_lower)
           THEN "complete"
           ELSE "None"

detect_completion_intent(message) ==
  LET message_lower == strip(lower(message))
  IN  IF \E i \in 1..Len(explicit_phrases) :
             Contains(explicit_phrases[i], message_lower)
      THEN "complete"
      ELSE IF \E i \in 1..Len(confirm_phrases) :
                  Contains(confirm_phrases[i], message_lower)
           THEN "confirm"
           ELSE "None"

\* ------------------------------------------------------ message texts

\* The inbound message texts the model draws from, by name.
MsgIds ==
  {"m_reset", "m_history", "m_facts", "m_help", "m_done", "m_remember", "m_forget", "m_klaar", "m_afronden", "m_ja", "m_plain"}

\* The file, search and Deck commands, by name (SpecFiles)
FileMsgIds ==
  {"m_task", "m_boards", "m_share", "m_upload", "m_zoek", "m_vind",
   "m_preview_lh", "m_preview_lp", "m_preview_nh", "m_preview_np"}

\* Prefix commands sent without an argument: the bare word, and the word
\* followed by white space only (SpecTurn)
BareMsgIds ==
  {"m_remember_bare", "m_remember_blank", "m_task_blank", "m_share_bare"}

\* The commands that only report: /whoami, /status and /transcribe (SpecCmd)
InfoMsgIds == {"m_whoami", "m_status", "m_transcribe"}

\* The replies the reasoning backend may return: an ordinary answer, and an
\* answer that happens to contain the words of the confirmation marker.
ReplyIds == {"r_plain", "r_marker"}

\* The assistant entry the confirm step records (app.py 2099)
CONFIRM_ENTRY == "a_confirm"

Text(id) ==
  CASE id = "m_reset" -> <<"/","r","e","s","e","t">>
    [] id = "m_history" -> <<"/","h","i","s","t","o","r","y">>
    [] id = "m_facts" -> <<"/","f","a","c","t","s">>
    [] id = "m_help" -> <<"/","h","e","l","p">>
    [] id = "m_done" -> <<"/","d","o","n","e">>
    [] id = "m_remember" -> <<"/","r","e","m","e","m","b","e","r"," ","t","a","a","k"," ","i","s"," ","k","l","a","a","r">>
    [] id = "m_forget" -> <<"/","f","o","r","g","e","t"," ","1">>
    [] id = "m_klaar" -> <<"w","e"," ","z","i","j","n"," ","k","l","a","a","r">>
    [] id = "m_afronden" -> <<"k","u","n","n","e","n"," ","w","e"," ","a","f","r","o","n","d","e","n">>
    [] id = "m_ja" -> <<"J","a">>
    [] id = "m_plain" -> <<"h","o","e"," ","g","a","a","t"," ","h","e","t">>
    [] id = "m_task" -> <<"/","t","a","s","k"," ","a">>
    [] id = "m_boards" -> <<"/","b","o","a","r","d","s">>
    [] id = "m_share" -> <<"/","s","h","a","r","e"," ","a">>
    [] id = "m_upload" -> <<"/","u","p","l","o","a","d"," ","/","t","m","p","/","a">>
    [] id = "m_zoek" -> <<"/","z","o","e","k"," ","a">>
    [] id = "m_vind" -> <<"/","v","i","n","d"," ","a">>
    [] id = "m_preview_lh" -> <<"/","p","r","e","v","i","e","w"," ","/","t","m","p","/","a",".","H","T","M","L">>
    [] id = "m_preview_lp" -> <<"/","p","r","e","v","i","e","w"," ","/","t","m","p","/","a",".","p","d","f">>
    [] id = "m_preview_nh" -> <<"/","p","r","e","v","i","e","w"," ","d","/","a",".","h","t","m">>
    [] id = "m_preview_np" -> <<"/","p","r","e","v","i","e","w"," ","d","/","a",".","p","d","f">>
    [] id = "m_remember_bare" -> <<"/","r","e","m","e","m","b","e","r">>
    [] id = "m_remember_blank" -> <<"/","r","e","m","e","m","b","e","r"," "," ">>
    [] id = "m_task_blank" -> <<"/","t","a","s","k"," ">>
    [] id = "m_share_bare" -> <<"/","s","h","a","r","e">>
    [] id = "m_whoami" -> <<"/","w","h","o","a","m","i">>
    [] id = "m_status" -> <<"/","S","t","a","t","u","s">>
    [] id = "m_transcribe" -> <<"/","t","r","a","n","s","c","r","i","b","e"," ">>
    [] id = "r_none" -> <<"G","e","e","n"," ","a","n","t","w","o","o","r","d">>
    [] id = "r_error" -> <<"E","r","r","o","r",":"," ","x">>
    [] id = "r_timeout" -> <<"C","l","a","u","d","e"," ","t","i","m","e","o","u","t">>
    [] id = "r_fout" -> <<"F","o","u","t",":"," ","x">>
    [] id = "r_plain" -> <<"p","r","i","m","a">>
    [] id = "r_marker" -> <<"e","e","r","s","t"," ","d","e"," ","b","e","v","e","s","t","i","g","i","n","g"," ","v","o","o","r"," ","a","f","r","o","n","d","e","n">>
    [] id = "a_confirm" -> <<"V","r","a","a","g"," ","o","m"," ","b","e","v","e","s","t","i","g","i","n","g"," ","v","o","o","r"," ","a","f","r","o","n","d","e","n"," ","t","a","a","k">>

\* app.py 2103 (the fourth word is "ok" followed by e-acute, one character)
affirmations ==
  { <<"j","a">>,
    <<"y","e","s">>,
    <<"o","k">>,
    <<"o","k","E_ACUTE">>,
    <<"b","e","v","e","s","t","i","g">>,
    <<"a","k","k","o","o","r","d">> }

\* app.py 2107
CONFIRM_MARKER == <<"b","e","v","e","s","t","i","g","i","n","g"," ","v","o","o","r"," ","a","f","r","o","n","d","e","n">>

\* ---------------------------------------------------- verify_signature

HexDigits == <<"0","1","2","3","4","5","6","7","8","9","a","b","c","d","e","f">>

\* Every character a secret, nonce or request body of the model is written in.
\* A request body is written as four field symbols (type, actor type, content,
\* conversation token); "{" alone is a body that is not JSON, "[[[" stands
\* for brackets opened deeper than the interpreter's recursion limit and
\* never closed, "null" is JSON that is no object; "null" in the place of
\* the content is an event whose member "object" is null.
Symbols ==
  << "k", "n", "{", "[[[", "null", "", "Create", "Activity", "Delete", "users", "Application",
     "tA", "tB",
     "m_reset", "m_history", "m_facts", "m_help", "m_done", "m_remember",
     "m_forget", "m_klaar", "m_afronden", "m_ja", "m_plain",
     "m_task", "m_boards", "m_share", "m_upload", "m_zoek", "m_vind",
     "m_preview_lh", "m_preview_lp", "m_preview_nh", "m_preview_np",
     "m_remember_bare", "m_remember_blank", "m_task_blank", "m_share_bare",
     "m_whoami", "m_status", "m_transcribe" >>

CharCode(c) == CHOOSE i \in 1..Len(Symbols) : Symbols[i] = c

HexOfChar(c) ==
  << HexDigits[(CharCode(c) \div 16) + 1], HexDigits[(CharCode(c) % 16) + 1] >>

RECURSIVE HexOf(_)
HexOf(s) == IF s = << >> THEN << >> ELSE HexOfChar(Head(s)) \o HexOf(Tail(s))

\* hmac.new(key, msg, sha256).hexdigest(): a lower-case hex string that is a
\* collision-free function of (key, msg).  No character code is 255, so the
\* pair "ff" separates the key from the message.
hmac_hexdigest(key, msg) == HexOf(key) \o <<"f","f">> \o HexOf(msg)

\* hmac.compare_digest on str raises TypeError unless both are ASCII
IsAscii(s) == \A i \in 1..Len(s) : s[i] # "E_ACUTE"

\* Faulty variants of verify_signature, for the sensitivity runs of C26 and
\* C27: one without the test of the secret, one that leaves the nonce out
\* of the digest.
accepts_empty_key(secret, random_header, body, signature) ==
  LET expected == hmac_hexdigest(secret, random_header \o body)
  IN  IF ~IsAscii(lower(signature))
      THEN "TypeError"
      ELSE IF lower(expected) = lower(signature) THEN "True" ELSE "False"

digest_of_body(secret, random_header, body, signature) ==
  IF secret = << >>
  THEN "False"
  ELSE LET expected == hmac_hexdigest(secret, body)
       IN  IF ~IsAscii(lower(signature))
           THEN "TypeError"
           ELSE IF lower(expected) = lower(signature) THEN "True" ELSE "False"

\* "True", "False", or the exception that leaves the function
verify_signature(secret, random_header, body, signature) ==
  IF secret = << >>
  THEN "False"
  ELSE LET expected == hmac_hexdigest(secret, random_header \o body)
       IN  IF ~IsAscii(lower(signature))
           THEN "TypeError"
           ELSE IF lower(expected) = lower(signature) THEN "True" ELSE "False"

\* ------------------------------------------------------- configuration

\* BOTS as loaded from bots_config.json: two configured identities, one of
\* them with an empty secret; the route for "freek" has no configuration.
BOTS ==
  [u \in {"maarten", "albert"} |->
     [secret |-> IF u = "maarten" THEN <<"k">> ELSE << >>]]

Routes == {"maarten", "albert", "freek"}

Tokens == {"tA", "tB"}

MAX_HISTORY_MESSAGES == 50

MAX_FACTS == 20

\* ------------------------------------------------------------- bounds

\* requests received in one run, by concurrent threads (Spec)
MaxEvents == 2

\* requests received in one run, handled one after the other (SpecSeq)
MaxSeqEvents == 3

\* the worker threads that handle requests concurrently
Threads == {"w1", "w2"}

\* requests received in one run, with every request and every outcome of
\* the reasoning backend (SpecTurn)
MaxTurnEvents == 2

\* file, search and Deck commands received in one run (SpecFiles)
MaxFileEvents == 2

\* add_to_history calls made on one token (SpecHist)
MaxAppends == 102

\* writes of the history snapshot that fail in one run (SpecHist)
MaxFailedWrites == 2

\* add_to_history calls in one run with process kills (SpecCrash)
MaxCrashAppends == 3

\* restarts of the process in one run (SpecCrash)
MaxRestarts == 2

\* characters in a secret, a nonce or a body given to verify_signature
\* (SpecSig)
MaxSigLen == 2

\* characters put before and behind a phrase in a text given to
\* detect_completion_intent (SpecIntent)
MaxPad == 1

\* key facts and history entries of the token whose context is rendered
\* (SpecRender)
MaxCtxFacts == 3

MaxCtxMessages == 52

\* characters a content given to truncate_message may have above its
\* max_length (SpecTrunc)
MaxOver == 30

\* events handled in one run of the command handlers (SpecCmd)
MaxCmdEvents == 2

\* events handled in one run of /facts beside /forget and /remember
\* (SpecRace)
MaxRaceEvents == 2

\* webhook events of one run of the two threads on one conversation
\* (SpecLocks)
MaxLockEvents == 2

\* webhook events of one run of the two threads under fair scheduling
\* (SpecLive)
MaxLiveEvents == 2

\* webhook events of one run of the two threads on two conversations
\* (SpecIso)
MaxIsoEvents == 2

\* add_to_history calls made by the threads together in one run
\* (SpecAppend)
MaxCalls == 4

\* distinct fact texts offered to /remember (SpecFacts)
MaxFact == 22

\* calls other than the /remember of a fresh fact in one run (SpecFacts)
MaxFreeOps == 2

\* the owner of a lock nobody holds
NoThread == "free"

\* ------------------------------------------------------------ requests

EventBody(ty, ac, content, target) == <<ty, ac, content, target>>

\* tA is the conversation of a task (it has a row in task_bots), tB is an
\* ordinary conversation
GoodBodies ==
  { EventBody("Create", "users", m, "tA") : m \in MsgIds }
  \cup { EventBody("Create", "users", m, "tB") :
            m \in {"m_plain", "m_klaar", "m_remember", "m_done"} }

OddBodies ==
  { EventBody("Activity", "users", "m_help", "tA"),
    EventBody("Delete", "users", "m_plain", "tA"),
    EventBody("Create", "Application", "m_plain", "tA"),
    EventBody("Create", "users", "", "tA"),
    EventBody("Create", "users", "m_plain", ""),
    EventBody("Create", "Application", "null", "tA"),
    EventBody("Delete", "users", "null", "tA"),
    <<"{">>, <<"[[[">>, <<"null">> }

Nonce == <<"n">>

SecretOf(user) == IF user \in DOMAIN BOTS THEN BOTS[user].secret ELSE << >>

Signed(user, body) ==
  [user |-> user, random |-> Nonce, body |-> body,
   sig |-> hmac_hexdigest(SecretOf(user), Nonce \o body)]

\* one hex digit of the signature replaced by another
Tamper(sig) ==
  [sig EXCEPT ![Len(sig)] = IF @ = "0" THEN "1" ELSE "0"]

\* The requests the platform (or anyone else) may post: correctly signed
\* events, and requests whose signature is in upper case, altered, missing,
\* not ASCII, or made for an empty secret or an unconfigured route.
Requests ==
  LET probe == EventBody("Create", "users", "m_klaar", "tA")
      good  == Signed("maarten", probe)
  IN  { Signed("maarten", b) : b \in GoodBodies \cup OddBodies }
      \cup { [good EXCEPT !.sig = upper(@)],
             [good EXCEPT !.sig = Tamper(@)],
             [good EXCEPT !.sig = << >>],
             [good EXCEPT !.sig = <<"E_ACUTE">>],
             [Signed("maarten", <<"{">>) EXCEPT !.sig = Tamper(@)],
             Signed("albert", probe),
             [Signed("albert", probe) EXCEPT !.sig = << >>],
             Signed("freek", probe) }

\* every request of Requests, and the prefix commands without an argument
TurnRequests ==
  Requests
  \cup { Signed("maarten", EventBody("Create", "users", m, tk)) :
           m \in BareMsgIds, tk \in Tokens }

\* the file, search and Deck commands, sent in an ordinary conversation
FileRequests ==
  { Signed("maarten", EventBody("Create", "users", m, "tB")) : m \in FileMsgIds }

\* what json.loads(body) gives when it returns nothing usable
NoData ==
  [ok |-> FALSE, raised |-> "", object |-> FALSE, members |-> FALSE,
   type |-> "", actor |-> "", content |-> "", target |-> ""]

\* json.loads(body) followed by the field reads of lines 1647-1661: the
\* fields of a JSON object, JSON that is no object, or the exception raised
\* (JSONDecodeError for text that is not JSON, RecursionError when the text
\* nests deeper than the recursion limit).  members tells whether the
\* members the handler calls .get on (actor, object, target) are objects.
json_loads(body) ==
  IF Len(body) = 4
  THEN [NoData EXCEPT !.ok = TRUE, !.object = TRUE,
                      !.members = (body[3] # "null"),
                      !.type = body[1], !.actor = body[2],
                      !.content = IF body[3] = "null" THEN "" ELSE body[3],
                      !.target = body[4]]
  ELSE IF body = <<"null">> THEN [NoData EXCEPT !.ok = TRUE]
  ELSE IF body = <<"[[[">> THEN [NoData EXCEPT !.raised = "RecursionError"]
  ELSE [NoData EXCEPT !.raised = "JSONDecodeError"]

\* ----------------------------------------------------------- the state

VARIABLES
  conversation_history,  \* dict token -> list of messages (app.py 206)
  key_facts,             \* dict token -> list of facts (app.py 207)
  history_file,          \* conversation_history.json as last written
  key_facts_file,        \* key_facts.json as last written
  history_lock,          \* the thread holding history_lock, or NoThread
  facts_lock,            \* the thread holding facts_lock, or NoThread
  task_bots,             \* table task_bots of the deck-bot database, by token
  req,                   \* each request thread: position and locals
  nEvents,               \* requests received so far
  procRuns,              \* per token: completion procedures whose step (a) committed
  confirmState,          \* per token: "none", "prompted" (the confirm step
                         \* finished last), "intervened" (another event of the
                         \* token was handled after it)
  trace                  \* the calls made so far, in the specifications that
                         \* exercise one function of the store on its own

vars ==
  << conversation_history, key_facts, history_file, key_facts_file,
     history_lock, facts_lock, task_bots, req, nEvents, procRuns,
     confirmState, trace >>

\* A request thread that handles no request.
Idle ==
  [ pc |-> "idle", ev |-> 0, user |-> "", verified |-> "", parsed |-> FALSE,
    data |-> NoData,
    token |-> "", msg |-> "", fact |-> << >>, fact_num |-> 0,
    task_bot |-> "None", path |-> "", out |-> "",
    ctx |-> [facts |-> << >>, messages |-> << >>], response |-> "",
    backend |-> "", log |-> << >>, delivered |-> "", resp |-> 0,
    status |-> "",
    prior |-> "none" ]

\* {} as loaded when no snapshot file exists
EmptyDict == [k \in {} |-> << >>]

Init ==
  /\ conversation_history = EmptyDict
  /\ key_facts = EmptyDict
  /\ history_file = EmptyDict
  /\ key_facts_file = EmptyDict
  /\ history_lock = NoThread
  /\ facts_lock = NoThread
  /\ task_bots = [tk \in {"tA"} |-> [status |-> "active"]]
  /\ req = [t \in Threads |-> Idle]
  /\ nEvents = 0
  /\ procRuns = [tk \in Tokens |-> 0]
  /\ confirmState = [tk \in Tokens |-> "none"]
  /\ trace = << >>

\* ------------------------------------------------- conversation store

\* the texts of a list, one after the other
RECURSIVE Flatten(_)
Flatten(list) ==
  IF list = << >> THEN << >> ELSE Head(list) \o Flatten(Tail(list))

\* A faulty variant of acquire, for the sensitivity run of C36: the thread
\* goes on whether the lock is free or not.
never_waits(lock, t) == [ok |-> TRUE, lock |-> t]

\* "with lock:" entered by thread t (app.py 208-209, 1359): the thread goes
\* on when the lock is free, and holds it then
acquire(lock, t) == [ok |-> lock = NoThread, lock |-> t]

\* dict.get(token, [])
Get(d, token) == IF token \in DOMAIN d THEN d[token] ELSE << >>

\* A faulty variant of Put, for the sensitivity run of C40: the value is
\* stored under every key of the dictionary.
puts_everywhere(d, token, value) == [k \in DOMAIN d \cup {token} |-> value]

\* d[token] = value
Put(d, token, value) ==
  [k \in DOMAIN d \cup {token} |-> IF k = token THEN value ELSE d[k]]

\* A faulty variant of Del, for the sensitivity run of C33: it empties
\* the dictionary.
clears_all(d, token) == [k \in {} |-> d[k]]

\* del d[token]
Del(d, token) == [k \in DOMAIN d \ {token} |-> d[k]]

\* lst[-n:]
LastN(lst, n) ==
  IF Len(lst) > n THEN SubSeq(lst, Len(lst) - n + 1, Len(lst)) ELSE lst

\* A faulty variant of add_to_history, for the sensitivity run of C11: over
\* the cap it keeps the oldest entries.
keeps_oldest(h, token, role, name, content, ev) ==
  LET appended == Append(Get(h, token),
                         [role |-> role, name |-> name, content |-> content,
                          ev |-> ev])
  IN  Put(h, token,
          IF Len(appended) > MAX_HISTORY_MESSAGES * 2
          THEN SubSeq(appended, 1, MAX_HISTORY_MESSAGES * 2)
          ELSE appended)

\* add_to_history, the dict it leaves (the timestamp is left out; ev, the
\* number of the request that appended the entry, is kept for the checks)
add_to_history(h, token, role, name, content, ev) ==
  LET appended == Append(Get(h, token),
                         [role |-> role, name |-> name, content |-> content,
                          ev |-> ev])
  IN  Put(h, token,
          IF Len(appended) > MAX_HISTORY_MESSAGES * 2
          THEN LastN(appended, MAX_HISTORY_MESSAGES * 2)
          ELSE appended)

\* A faulty variant of add_key_fact, for the sensitivity run of C12: over
\* the cap it drops the fact just added.
drops_newest(kf, token, fact) ==
  LET cur == Get(kf, token)
  IN  IF \E i \in 1..Len(cur) : cur[i] = fact
      THEN [facts |-> Put(kf, token, cur), saved |-> FALSE, ret |-> FALSE]
      ELSE [facts |-> Put(kf, token,
                          IF Len(cur) + 1 > MAX_FACTS
                          THEN SubSeq(Append(cur, fact), 1, MAX_FACTS)
                          ELSE Append(cur, fact)),
            saved |-> TRUE, ret |-> TRUE]

\* A faulty variant of add_key_fact, for the sensitivity run of C13: it does
\* not look for the fact in the list.
appends_always(kf, token, fact) ==
  LET cur == Get(kf, token)
  IN  [facts |-> Put(kf, token,
                     IF Len(cur) + 1 > MAX_FACTS
                     THEN LastN(Append(cur, fact), MAX_FACTS)
                     ELSE Append(cur, fact)),
       saved |-> TRUE, ret |-> TRUE]

\* add_key_fact: the dict it leaves, whether it saved, and what it returns
add_key_fact(kf, token, fact) ==
  LET cur == Get(kf, token)
  IN  IF \E i \in 1..Len(cur) : cur[i] = fact
      THEN [facts |-> Put(kf, token, cur), saved |-> FALSE, ret |-> FALSE]
      ELSE [facts |-> Put(kf, token,
                          IF Len(cur) + 1 > MAX_FACTS
                          THEN LastN(Append(cur, fact), MAX_FACTS)
                          ELSE Append(cur, fact)),
            saved |-> TRUE, ret |-> TRUE]

\* lst.pop(i) with a zero-based index: the list left
Pop(lst, i) == SubSeq(lst, 1, i) \o SubSeq(lst, i + 2, Len(lst))

\* A faulty variant of the /forget test, for the sensitivity run of C14: the
\* lower limit is not tested, and list.pop counts a negative index from the
\* end.
pops_from_end(kf, token, fact_num) ==
  IF /\ token \in DOMAIN kf
     /\ fact_num < Len(kf[token])
     /\ 0 - fact_num <= Len(kf[token])
  THEN [facts |-> Put(kf, token,
                      Pop(kf[token],
                          IF fact_num < 0 THEN Len(kf[token]) + fact_num
                          ELSE fact_num)),
        removed |-> TRUE]
  ELSE [facts |-> kf, removed |-> FALSE]

\* the reply of the /forget handler (app.py 1742, 1744)
forget_reply(removed) == IF removed THEN "forgot" ELSE "bad_number"

\* the /forget handler's test and pop (app.py 1739-1740): the dict left and
\* whether a fact was removed; fact_num is zero-based
forget_fact(kf, token, fact_num) ==
  IF /\ token \in DOMAIN kf
     /\ 0 <= fact_num
     /\ fact_num < Len(kf[token])
  THEN [facts |-> Put(kf, token, Pop(kf[token], fact_num)), removed |-> TRUE]
  ELSE [facts |-> kf, removed |-> FALSE]

\* save_key_facts: the snapshot file after the call; a write that raises is
\* caught and leaves the file as it was (app.py 1318-1329)
save_key_facts(file, kf, write_ok) == IF write_ok THEN kf ELSE file

\* save_history: the snapshot file after the call; a write that raises is
\* caught and leaves the file as it was (app.py 1309-1315)
save_history(file, h, write_ok) == IF write_ok THEN h ELSE file

\* A faulty variant of add_to_history_saved, for the sensitivity run of C24:
\* when the write fails it takes the entry out of memory again.
rolls_back(h, file, token, role, name, content, ev, write_ok) ==
  LET added == add_to_history(h, token, role, name, content, ev)
  IN  [history |-> IF write_ok THEN added ELSE h,
       file |-> save_history(file, added, write_ok)]

\* add_to_history with its save_history call (app.py 1357-1373): the entry
\* is appended in memory, then the snapshot is written
add_to_history_saved(h, file, token, role, name, content, ev, write_ok) ==
  LET added == add_to_history(h, token, role, name, content, ev)
  IN  [history |-> added, file |-> save_history(file, added, write_ok)]

\* the line of a history entry: **name:** content for a user, **Claude:**
\* content for the assistant; ev tells which entry the content is of
message_line(msg) ==
  [kind |-> "message",
   prefix |-> IF msg.role = "user" THEN msg.name ELSE "Claude",
   ev |-> msg.ev]

\* A faulty variant of history_context_lines, for the sensitivity run of
\* C30: it renders the oldest messages in place of the newest.
oldest_messages(facts, h, token) ==
  LET fact_lines ==
        IF facts = << >>
        THEN << >>
        ELSE <<[kind |-> "facts_header"]>>
             \o [i \in 1..Len(facts) |->
                   [kind |-> "fact", num |-> i, fact |-> facts[i]]]
             \o <<[kind |-> "blank"]>>
      messages == Get(h, token)
      recent_messages ==
        SubSeq(messages, 1, IF Len(messages) > MAX_HISTORY_MESSAGES
                            THEN MAX_HISTORY_MESSAGES ELSE Len(messages))
  IN  IF messages = << >>
      THEN IF fact_lines # << >>
           THEN fact_lines \o <<[kind |-> "new_conversation"]>>
           ELSE << >>
      ELSE fact_lines
           \o <<[kind |-> "history_header"]>>
           \o [i \in 1..Len(recent_messages) |-> message_line(recent_messages[i])]
           \o <<[kind |-> "blank"], [kind |-> "new_message"]>>

\* get_history_context (app.py 1399-1458): the lines it joins with "\n";
\* no line at all is the empty string it returns
history_context_lines(facts, h, token) ==
  LET fact_lines ==
        IF facts = << >>
        THEN << >>
        ELSE <<[kind |-> "facts_header"]>>
             \o [i \in 1..Len(facts) |->
                   [kind |-> "fact", num |-> i, fact |-> facts[i]]]
             \o <<[kind |-> "blank"]>>
      messages == Get(h, token)
      recent_messages == LastN(messages, MAX_HISTORY_MESSAGES)
  IN  IF messages = << >>
      THEN IF fact_lines # << >>
           THEN fact_lines \o <<[kind |-> "new_conversation"]>>
           ELSE << >>
      ELSE fact_lines
           \o <<[kind |-> "history_header"]>>
           \o [i \in 1..Len(recent_messages) |-> message_line(recent_messages[i])]
           \o <<[kind |-> "blank"], [kind |-> "new_message"]>>

\* get_history_context: what the prompt block is rendered from
get_history_context(facts, h, token) ==
  [facts |-> facts, messages |-> LastN(Get(h, token), MAX_HISTORY_MESSAGES)]

\* Faulty variants of the tail test, for the sensitivity runs of C6 and C7:
\* one that never finds a pending confirmation, one that accepts any
\* non-empty history.
never_pending(history) == FALSE

nonempty_history(history) == Len(history) > 0

\* the affirmation path's test on the history tail (app.py 2106-2107)
confirmation_pending(history) ==
  /\ Len(history) > 0
  /\ Contains(CONFIRM_MARKER, Text(history[Len(history)].content))

\* ------------------------------------------------- completion procedure

\* move_card_to_done: what it returns for each way the Deck calls can go;
\* every exception is caught inside it
MoveOutcomes == {"moved", "stacks_failed", "no_done_stack", "move_failed", "raised"}

move_card_to_done(outcome) == outcome = "moved"

\* Faulty variants of complete_task's return value, for the sensitivity runs
\* of C8 and C9: one that hides a failed UPDATE, one that lets a failed card
\* move abort the procedure.
returns_true(db_ok, moved) == TRUE

requires_move(db_ok, moved) == db_ok /\ moved

\* complete_task: what it returns, given whether the UPDATE committed and
\* what the card move returned
complete_task(db_ok, moved) == db_ok

\* A faulty variant of the UPDATE, for the sensitivity run of C10: the row
\* is deleted instead.
delete_binding(tb, token) == Del(tb, token)

\* the row an UPDATE ... SET status = 'completed' WHERE conversation_token = ?
\* leaves (no row: nothing to update)
update_status(tb, token) ==
  IF token \in DOMAIN tb
  THEN [tb EXCEPT ![token] = [@ EXCEPT !.status = "completed"]]
  ELSE tb

\* get_task_bot_by_token: the row's status, or "None" when there is no row
\* or the read fails
get_task_bot_by_token(tb, token, read_ok) ==
  IF read_ok /\ token \in DOMAIN tb THEN tb[token].status ELSE "None"

\* --------------------------------------------------- reasoning backend

\* the ways the one subprocess.run of call_claude can end (app.py 1602-1623):
\* output on stdout (an ordinary answer, or one that contains the words of
\* the confirmation marker), no output, a non-zero exit with text on stderr,
\* the timeout, any other exception
BackendOutcomes == {"answer", "marker", "empty", "stderr", "timeout", "raised"}

\* the outcomes with an answer on stdout
AnswerOutcomes == {"answer", "marker"}

\* A faulty variant of call_claude, for the sensitivity run of C22: after a
\* timeout or a failure it starts the backend a second time.
retries_after_failure(outcome) ==
  [response |-> CASE outcome = "answer" -> "r_plain"
                  [] outcome = "marker" -> "r_marker"
                  [] outcome = "empty" -> "r_none"
                  [] outcome = "stderr" -> "r_error"
                  [] outcome = "timeout" -> "r_timeout"
                  [] outcome = "raised" -> "r_fout",
   calls |-> IF outcome \in {"timeout", "raised", "stderr"} THEN 2 ELSE 1]

\* A faulty variant of call_claude, for the sensitivity run of C23: on a
\* timeout it returns what the backend had written so far.
partial_on_timeout(outcome) ==
  [response |-> CASE outcome = "answer" -> "r_plain"
                  [] outcome = "marker" -> "r_marker"
                  [] outcome = "empty" -> "r_none"
                  [] outcome = "stderr" -> "r_error"
                  [] outcome = "timeout" -> "r_plain"
                  [] outcome = "raised" -> "r_fout",
   calls |-> 1]

\* call_claude: the text it returns, and how many times it ran the backend
call_claude(outcome) ==
  [response |-> CASE outcome = "answer" -> "r_plain"
                  [] outcome = "marker" -> "r_marker"
                  [] outcome = "empty" -> "r_none"
                  [] outcome = "stderr" -> "r_error"
                  [] outcome = "timeout" -> "r_timeout"
                  [] outcome = "raised" -> "r_fout",
   calls |-> 1]

\* ------------------------------------------------------------ dispatch

\* A faulty variant of the command checks below, for the sensitivity run of
\* C20: the completion phrases are looked for before the commands.
intent_first(message_content) ==
  LET stripped == strip(message_content)
      cmd == lower(stripped)
      to(pc) == [pc |-> pc, out |-> "", fact |-> << >>, fact_num |-> 0]
      arg_or_usage(pc, k) ==
        IF strip(SliceFrom(stripped, k)) = << >>
        THEN [to("send_final") EXCEPT !.out = "usage"]
        ELSE to(pc)
  IN  IF detect_completion_intent(message_content) # "None" THEN to("lookup")
      ELSE IF cmd = <<"/","r","e","s","e","t">> THEN to("reset")
      ELSE IF cmd = <<"/","h","i","s","t","o","r","y">> THEN to("history")
      ELSE IF cmd = <<"/","w","h","o","a","m","i">> THEN to("whoami")
      ELSE IF startswith(cmd, <<"/","r","e","m","e","m","b","e","r"," ">>)
      THEN LET fact == strip(SliceFrom(stripped, 10))
           IN  IF fact = << >>
               THEN [to("send_final") EXCEPT !.out = "usage"]
               ELSE [to("remember") EXCEPT !.fact = fact]
      ELSE IF cmd = <<"/","f","a","c","t","s">> THEN to("facts")
      ELSE IF startswith(cmd, <<"/","f","o","r","g","e","t"," ">>)
      THEN LET arg == strip(SliceFrom(stripped, 8))
           IN  IF IsInt(arg)
               THEN [to("forget") EXCEPT !.fact_num = int(arg) - 1]
               ELSE [to("send_final") EXCEPT !.out = "usage"]
      ELSE IF startswith(cmd, <<"/","t","a","s","k"," ">>)
      THEN arg_or_usage("task", 6)
      ELSE IF cmd = <<"/","b","o","a","r","d","s">> THEN to("boards")
      ELSE IF cmd = <<"/","h","e","l","p">> THEN to("help")
      ELSE IF startswith(cmd, <<"/","s","h","a","r","e"," ">>)
      THEN arg_or_usage("share", 7)
      ELSE IF startswith(cmd, <<"/","u","p","l","o","a","d"," ">>)
      THEN arg_or_usage("upload", 8)
      ELSE IF startswith(cmd, <<"/","z","o","e","k"," ">>)
      THEN arg_or_usage("zoek", 6)
      ELSE IF startswith(cmd, <<"/","v","i","n","d"," ">>)
      THEN arg_or_usage("vind", 6)
      ELSE IF startswith(cmd, <<"/","p","r","e","v","i","e","w"," ">>)
      THEN arg_or_usage("preview", 9)
      ELSE IF cmd = <<"/","d","o","n","e">> THEN to("done_cmd")
      ELSE IF cmd = <<"/","s","t","a","t","u","s">> THEN to("status")
      ELSE IF cmd = <<"/","t","r","a","n","s","c","r","i","b","e">>
      THEN to("transcribe")
      ELSE to("lookup")

\* The command checks of handle_webhook in their order (app.py 1688-2076),
\* for the commands the model's messages use: where the thread goes next,
\* and the argument it parsed.  Text that matches no command goes on to the
\* completion-intent check of line 2079.
route(message_content) ==
  LET stripped == strip(message_content)
      cmd == lower(stripped)
      to(pc) == [pc |-> pc, out |-> "", fact |-> << >>, fact_num |-> 0]
      arg_or_usage(pc, k) ==
        IF strip(SliceFrom(stripped, k)) = << >>
        THEN [to("send_final") EXCEPT !.out = "usage"]
        ELSE to(pc)
  IN  IF cmd = <<"/","r","e","s","e","t">> THEN to("reset")
      ELSE IF cmd = <<"/","h","i","s","t","o","r","y">> THEN to("history")
      ELSE IF cmd = <<"/","w","h","o","a","m","i">> THEN to("whoami")
      ELSE IF startswith(cmd, <<"/","r","e","m","e","m","b","e","r"," ">>)
      THEN LET fact == strip(SliceFrom(stripped, 10))
           IN  IF fact = << >>
               THEN [to("send_final") EXCEPT !.out = "usage"]
               ELSE [to("remember") EXCEPT !.fact = fact]
      ELSE IF cmd = <<"/","f","a","c","t","s">> THEN to("facts")
      ELSE IF startswith(cmd, <<"/","f","o","r","g","e","t"," ">>)
      THEN LET arg == strip(SliceFrom(stripped, 8))
           IN  IF IsInt(arg)
               THEN [to("forget") EXCEPT !.fact_num = int(arg) - 1]
               ELSE [to("send_final") EXCEPT !.out = "usage"]
      ELSE IF startswith(cmd, <<"/","t","a","s","k"," ">>)
      THEN arg_or_usage("task", 6)
      ELSE IF cmd = <<"/","b","o","a","r","d","s">> THEN to("boards")
      ELSE IF cmd = <<"/","h","e","l","p">> THEN to("help")
      ELSE IF startswith(cmd, <<"/","s","h","a","r","e"," ">>)
      THEN arg_or_usage("share", 7)
      ELSE IF startswith(cmd, <<"/","u","p","l","o","a","d"," ">>)
      THEN arg_or_usage("upload", 8)
      ELSE IF startswith(cmd, <<"/","z","o","e","k"," ">>)
      THEN arg_or_usage("zoek", 6)
      ELSE IF startswith(cmd, <<"/","v","i","n","d"," ">>)
      THEN arg_or_usage("vind", 6)
      ELSE IF startswith(cmd, <<"/","p","r","e","v","i","e","w"," ">>)
      THEN arg_or_usage("preview", 9)
      ELSE IF cmd = <<"/","d","o","n","e">> THEN to("done_cmd")
      ELSE IF cmd = <<"/","s","t","a","t","u","s">> THEN to("status")
      ELSE IF cmd = <<"/","t","r","a","n","s","c","r","i","b","e">>
      THEN to("transcribe")
      ELSE to("lookup")

\* the handler returns (or is left by an exception) before the dispatch
answered(base, code, status) ==
  [base EXCEPT !.pc = "done", !.resp = code, !.status = status]

\* handle_webhook from json.loads to the dispatch (app.py 1642-1686), for a
\* request whose signature was accepted.  An exception that is not caught
\* leaves the handler, and the framework answers 500.
parse_event(base, body, prior) ==
  LET data == json_loads(body)
      read == [base EXCEPT !.parsed = TRUE, !.data = data]
  IN  IF data.raised = "JSONDecodeError" THEN answered(read, 400, "error")
      ELSE IF data.raised # "" THEN answered(read, 500, "error")
      ELSE IF ~data.object THEN answered(read, 500, "error")
      ELSE IF data.type \notin {"Create", "Activity"}
      THEN answered(read, 200, "ignored")
      ELSE IF ~data.members THEN answered(read, 500, "error")
      ELSE IF \/ data.actor = "Application"
              \/ data.content = ""
              \/ data.target = ""
      THEN answered(read, 200, "ignored")
      ELSE LET r == route(Text(data.content))
           IN  [read EXCEPT !.token = data.target, !.msg = data.content,
                            !.pc = r.pc, !.out = r.out, !.fact = r.fact,
                            !.fact_num = r.fact_num,
                            !.prior =
                              IF lower(strip(Text(data.content))) \in affirmations
                              THEN prior[data.target] ELSE "none"]

\* A faulty variant of the entry, for the sensitivity run of C15: the
\* signature is checked before the bot is looked up.
verifies_first(w, ev, prior) ==
  LET base == [Idle EXCEPT !.ev = ev, !.user = w.user]
      secret == IF w.user \in DOMAIN BOTS THEN BOTS[w.user].secret ELSE << >>
      verified == verify_signature(secret, w.random, w.body, w.sig)
      checked == [base EXCEPT !.verified = verified]
  IN  IF verified = "TypeError" THEN answered(checked, 500, "error")
      ELSE IF verified = "False" THEN answered(checked, 401, "error")
      ELSE IF w.user \notin DOMAIN BOTS THEN answered(checked, 404, "error")
      ELSE parse_event(checked, w.body, prior)

\* handle_webhook from its entry (app.py 1626-1640): the bot lookup and the
\* signature check, then the rest
enter(w, ev, prior) ==
  LET base == [Idle EXCEPT !.ev = ev, !.user = w.user]
      verified == verify_signature(BOTS[w.user].secret, w.random, w.body, w.sig)
      checked == [base EXCEPT !.verified = verified]
  IN  IF w.user \notin DOMAIN BOTS
      THEN answered(base, 404, "error")
      ELSE IF verified = "TypeError" THEN answered(checked, 500, "error")
      ELSE IF verified = "False" THEN answered(checked, 401, "error")
      ELSE parse_event(checked, w.body, prior)

\* A faulty variant of the checks below, for the sensitivity run of C5: an
\* explicit completion phrase is answered with the confirmation prompt.
always_asks(task_bot, message_content) ==
  LET completion_intent == detect_completion_intent(message_content)
  IN  IF task_bot = "active" /\ completion_intent \in {"complete", "confirm"}
      THEN "confirm"
      ELSE IF /\ task_bot # "None"
              /\ lower(strip(message_content)) \in affirmations
      THEN "affirm"
      ELSE "default"

\* A faulty variant of the checks below, for the sensitivity run of C37: the
\* status of the binding is not looked at.
any_binding(task_bot, message_content) ==
  LET completion_intent == detect_completion_intent(message_content)
  IN  IF task_bot # "None" /\ completion_intent = "complete" THEN "ct_update"
      ELSE IF task_bot # "None" /\ completion_intent = "confirm" THEN "confirm"
      ELSE IF /\ task_bot # "None"
              /\ lower(strip(message_content)) \in affirmations
      THEN "affirm"
      ELSE "default"

\* the checks of lines 2079-2118 on the looked-up binding and the text:
\* where a message that is no command goes
branch(task_bot, message_content) ==
  LET completion_intent == detect_completion_intent(message_content)
  IN  IF task_bot = "active" /\ completion_intent = "complete" THEN "ct_update"
      ELSE IF task_bot = "active" /\ completion_intent = "confirm" THEN "confirm"
      ELSE IF /\ task_bot # "None"
              /\ lower(strip(message_content)) \in affirmations
      THEN "affirm"
      ELSE "default"

\* ------------------------------------------------------------- actions

\* the ghost confirmState after a request of the token was handled
Finished(tk, kind) ==
  [confirmState EXCEPT ![tk] =
     IF kind = "confirm" THEN "prompted"
     ELSE IF @ = "prompted" THEN "intervened" ELSE @]

\* the handler's reply to the conversation was handed to send_message,
\* which returned success (app.py 1475-1504)
final_reply(r, success) ==
  [r EXCEPT !.delivered = IF success THEN "yes" ELSE "no"]

\* A faulty variant of Answer, for the sensitivity run of C39: the handler
\* blocks in its last call and does not return.
never_returns(r, success) == [r EXCEPT !.pc = "hung"]

\* jsonify({'status': 'ok' if success else 'failed'}), 200
Answer(r, success) ==
  [r EXCEPT !.pc = "done", !.resp = 200,
            !.status = IF success THEN "ok" ELSE "failed",
            !.ctx = Idle.ctx]

\* A handler that has returned gives its thread back before any other
\* thread takes its next step: the return touches nothing shared, so every
\* interleaving has an equivalent one of this shape.
NoneDone == \A u \in Threads : req[u].pc # "done"

\* Free threads are interchangeable: a request goes to the first one.
FirstIdle(t) ==
  /\ req[t].pc = "idle"
  /\ t = "w1" \/ req["w1"].pc # "idle"

\* A request arrives on a free thread and runs up to its dispatch.
Receive(t, max, requests) ==
  /\ NoneDone
  /\ FirstIdle(t)
  /\ nEvents < max
  /\ \E w \in requests :
       req' = [req EXCEPT ![t] = enter(w, nEvents + 1, confirmState)]
  /\ nEvents' = nEvents + 1
  /\ UNCHANGED << conversation_history, key_facts, history_file,
                  key_facts_file, history_lock, facts_lock, task_bots,
                  procRuns, confirmState, trace >>

\* a handler's last send_message and its return (success = send_message(...))
SendFinal(t) ==
  LET r == req[t]
  IN  /\ r.pc = "send_final"
      /\ NoneDone
      /\ \E success \in BOOLEAN :
           req' = [req EXCEPT ![t] =
                     Answer(final_reply([r EXCEPT !.log = Append(@, r.out)],
                                        success),
                            success)]
      /\ confirmState' = Finished(r.token, "other")
      /\ UNCHANGED << conversation_history, key_facts, history_file,
                      key_facts_file, history_lock, facts_lock, task_bots,
                      nEvents, procRuns, trace >>

\* /reset (app.py 1689-1693)
Reset(t) ==
  LET r == req[t]
  IN  /\ r.pc = "reset"
      /\ NoneDone
      /\ history_lock = NoThread
      /\ IF r.token \in DOMAIN conversation_history
         THEN /\ conversation_history' = Del(conversation_history, r.token)
              /\ history_file' = conversation_history'
         ELSE UNCHANGED << conversation_history, history_file, trace >>
      /\ req' = [req EXCEPT ![t] = [r EXCEPT !.pc = "send_final", !.out = "reset_ok"]]
      /\ UNCHANGED << key_facts, key_facts_file, history_lock, facts_lock,
                      task_bots, nEvents, procRuns, confirmState, trace >>

\* /history (app.py 1697-1699)
HistoryCount(t) ==
  LET r == req[t]
  IN  /\ r.pc = "history"
      /\ NoneDone
      /\ history_lock = NoThread
      /\ req' = [req EXCEPT ![t] = [r EXCEPT !.pc = "send_final", !.out = "count"]]
      /\ UNCHANGED << conversation_history, key_facts, history_file,
                      key_facts_file, history_lock, facts_lock, task_bots,
                      nEvents, procRuns, confirmState, trace >>

\* /remember <fact> (app.py 1715-1718)
Remember(t) ==
  LET r == req[t]
      res == add_key_fact(key_facts, r.token, r.fact)
  IN  /\ r.pc = "remember"
      /\ NoneDone
      /\ facts_lock = NoThread
      /\ key_facts' = res.facts
      /\ key_facts_file' = IF res.saved THEN res.facts ELSE key_facts_file
      /\ req' = [req EXCEPT ![t] =
                   [r EXCEPT !.pc = "send_final",
                             !.out = IF res.ret THEN "remembered" ELSE "duplicate"]]
      /\ UNCHANGED << conversation_history, history_file, history_lock,
                      facts_lock, task_bots, nEvents, procRuns, confirmState, trace >>

\* /facts (app.py 1722-1730)
Facts(t) ==
  LET r == req[t]
  IN  /\ r.pc = "facts"
      /\ NoneDone
      /\ facts_lock = NoThread
      /\ req' = [req EXCEPT ![t] = [r EXCEPT !.pc = "send_final", !.out = "facts"]]
      /\ UNCHANGED << conversation_history, key_facts, history_file,
                      key_facts_file, history_lock, facts_lock, task_bots,
                      nEvents, procRuns, confirmState, trace >>

\* /forget <n>: facts_lock is taken, the fact popped and saved (app.py 1738-1741)
Forget(t) ==
  LET r == req[t]
      res == forget_fact(key_facts, r.token, r.fact_num)
  IN  /\ r.pc = "forget"
      /\ NoneDone
      /\ facts_lock = NoThread
      /\ facts_lock' = t
      /\ key_facts' = res.facts
      /\ key_facts_file' = IF res.removed THEN res.facts ELSE key_facts_file
      /\ req' = [req EXCEPT ![t] =
                   [r EXCEPT !.pc = "forget_send",
                             !.out = forget_reply(res.removed)]]
      /\ UNCHANGED << conversation_history, history_file, history_lock,
                      task_bots, nEvents, procRuns, confirmState, trace >>

\* /forget <n>: the reply is sent inside the with block, then the lock is
\* released and the handler returns (app.py 1742-1747)
ForgetSend(t) ==
  LET r == req[t]
  IN  /\ r.pc = "forget_send"
      /\ NoneDone
      /\ \E success \in BOOLEAN :
           req' = [req EXCEPT ![t] =
                     Answer(final_reply([r EXCEPT !.log = Append(@, r.out)],
                                        success),
                            success)]
      /\ facts_lock' = NoThread
      /\ confirmState' = Finished(r.token, "other")
      /\ UNCHANGED << conversation_history, key_facts, history_file,
                      key_facts_file, history_lock, task_bots, nEvents,
                      procRuns, trace >>

\* /help (app.py 1787-1838)
Help(t) ==
  LET r == req[t]
  IN  /\ r.pc = "help"
      /\ NoneDone
      /\ \E read_ok \in BOOLEAN :
           req' = [req EXCEPT ![t] =
                     [r EXCEPT !.pc = "send_final", !.out = "help",
                               !.task_bot = get_task_bot_by_token(task_bots, r.token, read_ok)]]
      /\ UNCHANGED << conversation_history, key_facts, history_file,
                      key_facts_file, history_lock, facts_lock, task_bots,
                      nEvents, procRuns, confirmState, trace >>

\* /done (app.py 2017-2021, 2032-2033)
DoneCmd(t) ==
  LET r == req[t]
  IN  /\ r.pc = "done_cmd"
      /\ NoneDone
      /\ \E read_ok \in BOOLEAN :
           LET task_bot == get_task_bot_by_token(task_bots, r.token, read_ok)
           IN  req' = [req EXCEPT ![t] =
                         IF task_bot # "None"
                         THEN [r EXCEPT !.pc = "ct_update", !.path = "done",
                                        !.task_bot = task_bot]
                         ELSE [r EXCEPT !.pc = "send_final", !.out = "not_task"]]
      /\ UNCHANGED << conversation_history, key_facts, history_file,
                      key_facts_file, history_lock, facts_lock, task_bots,
                      nEvents, procRuns, confirmState, trace >>

\* the binding lookup of line 2079 and the checks that follow it
Lookup(t) ==
  LET r == req[t]
  IN  /\ r.pc = "lookup"
      /\ NoneDone
      /\ \E read_ok \in BOOLEAN :
           LET task_bot == get_task_bot_by_token(task_bots, r.token, read_ok)
               next == branch(task_bot, Text(r.msg))
           IN  req' = [req EXCEPT ![t] =
                         [r EXCEPT !.pc = next, !.task_bot = task_bot,
                                   !.path = IF next = "ct_update" THEN "intent" ELSE ""]]
      /\ UNCHANGED << conversation_history, key_facts, history_file,
                      key_facts_file, history_lock, facts_lock, task_bots,
                      nEvents, procRuns, confirmState, trace >>

\* confirm verdict: the prompt is sent and the user message recorded
\* (app.py 2096-2098)
ConfirmAsk(t) ==
  LET r == req[t]
  IN  /\ r.pc = "confirm"
      /\ NoneDone
      /\ history_lock = NoThread
      /\ conversation_history' =
           add_to_history(conversation_history, r.token, "user", "Jan", r.msg, r.ev)
      /\ history_file' = conversation_history'
      /\ \E success \in BOOLEAN :
           req' = [req EXCEPT ![t] =
                     final_reply([r EXCEPT !.pc = "confirm_record",
                                           !.log = @ \o <<"prompt", "hist_user">>],
                                 success)]
      /\ UNCHANGED << key_facts, key_facts_file, history_lock, facts_lock,
                      task_bots, nEvents, procRuns, confirmState, trace >>

\* confirm verdict: the confirmation entry is recorded (app.py 2099-2100)
ConfirmRecord(t) ==
  LET r == req[t]
  IN  /\ r.pc = "confirm_record"
      /\ NoneDone
      /\ history_lock = NoThread
      /\ conversation_history' =
           add_to_history(conversation_history, r.token, "assistant", "Claude",
                          CONFIRM_ENTRY, r.ev)
      /\ history_file' = conversation_history'
      /\ req' = [req EXCEPT ![t] =
                   Answer([r EXCEPT !.log = Append(@, "hist_assistant")], TRUE)]
      /\ confirmState' = Finished(r.token, "confirm")
      /\ UNCHANGED << key_facts, key_facts_file, history_lock, facts_lock,
                      task_bots, nEvents, procRuns, trace >>

\* affirmation: history_lock is taken and the history tail tested; the
\* completion runs inside the with block (app.py 2105-2108)
Affirm(t) ==
  LET r == req[t]
      history == Get(conversation_history, r.token)
  IN  /\ r.pc = "affirm"
      /\ NoneDone
      /\ history_lock = NoThread
      /\ IF confirmation_pending(history)
         THEN /\ history_lock' = t
              /\ req' = [req EXCEPT ![t] =
                           [r EXCEPT !.pc = "ct_update", !.path = "aff"]]
         ELSE /\ history_lock' = NoThread
              /\ req' = [req EXCEPT ![t] =
                           [r EXCEPT !.pc = "default"]]
      /\ UNCHANGED << conversation_history, key_facts, history_file,
                      key_facts_file, facts_lock, task_bots, nEvents,
                      procRuns, confirmState, trace >>

\* A faulty variant of Released, for the sensitivity run of C38: the lock
\* of the affirmation path stays with the thread after the return.
keeps_held(r, t) == history_lock

\* the with block of the affirmation path ends when the handler returns
Released(r, t) == IF r.path = "aff" THEN NoThread ELSE history_lock

\* complete_task, step (a): the UPDATE and its commit (app.py 84-89)
CtUpdate(t) ==
  LET r == req[t]
  IN  /\ r.pc = "ct_update"
      /\ NoneDone
      /\ \/ /\ task_bots' = update_status(task_bots, r.token)
            /\ procRuns' = [procRuns EXCEPT ![r.token] = @ + 1]
            /\ req' = [req EXCEPT ![t] =
                         [r EXCEPT !.pc = "ct_move", !.log = Append(@, "db_commit")]]
         \/ /\ req' = [req EXCEPT ![t] =
                         [r EXCEPT !.pc = IF complete_task(FALSE, FALSE)
                                          THEN "ct_notify" ELSE "ct_error",
                                   !.log = Append(@, "db_error")]]
            /\ UNCHANGED << task_bots, procRuns >>
      /\ UNCHANGED << conversation_history, key_facts, history_file,
                      key_facts_file, history_lock, facts_lock, nEvents,
                      confirmState, trace >>

\* complete_task, step (b): move_card_to_done, and complete_task's return
\* (app.py 92-94)
CtMove(t) ==
  LET r == req[t]
  IN  /\ r.pc = "ct_move"
      /\ NoneDone
      /\ \E outcome \in MoveOutcomes :
           LET moved == move_card_to_done(outcome)
           IN  req' = [req EXCEPT ![t] =
                         [r EXCEPT !.pc = IF complete_task(TRUE, moved)
                                          THEN "ct_notify" ELSE "ct_error",
                                   !.log = Append(@, outcome)]]
      /\ UNCHANGED << conversation_history, key_facts, history_file,
                      key_facts_file, history_lock, facts_lock, task_bots,
                      nEvents, procRuns, confirmState, trace >>

\* step (c): the completion reply (app.py 2022, 2085, 2109)
CtNotify(t) ==
  LET r == req[t]
  IN  /\ r.pc = "ct_notify"
      /\ NoneDone
      /\ \E success \in BOOLEAN :
           req' = [req EXCEPT ![t] =
                     final_reply([r EXCEPT !.pc = "ct_close",
                                           !.log = Append(@, "task_done")],
                                 success)]
      /\ UNCHANGED << conversation_history, key_facts, history_file,
                      key_facts_file, history_lock, facts_lock, task_bots,
                      nEvents, procRuns, confirmState, trace >>

\* step (d): time.sleep(3), close_conversation, and the return
\* (app.py 2026-2029, 2088-2093, 2112-2117)
CtClose(t) ==
  LET r == req[t]
  IN  /\ r.pc = "ct_close"
      /\ NoneDone
      /\ req' = [req EXCEPT ![t] =
                   Answer([r EXCEPT !.log = @ \o <<"sleep", "delete_room">>], TRUE)]
      /\ history_lock' = Released(r, t)
      /\ confirmState' = Finished(r.token, "other")
      /\ UNCHANGED << conversation_history, key_facts, history_file,
                      key_facts_file, facts_lock, task_bots, nEvents, procRuns, trace >>

\* complete_task returned False: the error reply and the return
\* (app.py 2030-2031, 2091-2093, 2115-2117)
CtError(t) ==
  LET r == req[t]
  IN  /\ r.pc = "ct_error"
      /\ NoneDone
      /\ \E success \in BOOLEAN :
           req' = [req EXCEPT ![t] =
                     Answer(final_reply([r EXCEPT !.log = Append(@, "task_error")],
                                        success),
                            IF r.path = "done" THEN success ELSE TRUE)]
      /\ history_lock' = Released(r, t)
      /\ confirmState' = Finished(r.token, "other")
      /\ UNCHANGED << conversation_history, key_facts, history_file,
                      key_facts_file, facts_lock, task_bots, nEvents, procRuns, trace >>

\* default path: the user message is recorded (app.py 2142).  The copies of
\* the turn posted as comments on the Deck card (lines 2144-2156 and
\* 2192-2204) touch no state of the program and are left out.
DefaultUser(t) ==
  LET r == req[t]
  IN  /\ r.pc = "default"
      /\ NoneDone
      /\ history_lock = NoThread
      /\ conversation_history' =
           add_to_history(conversation_history, r.token, "user", "Jan", r.msg, r.ev)
      /\ history_file' = conversation_history'
      /\ req' = [req EXCEPT ![t] =
                   [r EXCEPT !.pc = "render_facts", !.log = Append(@, "hist_user")]]
      /\ UNCHANGED << key_facts, key_facts_file, history_lock, facts_lock,
                      task_bots, nEvents, procRuns, confirmState, trace >>

\* get_history_context: get_key_facts under facts_lock (app.py 1404)
RenderFacts(t) ==
  LET r == req[t]
  IN  /\ r.pc = "render_facts"
      /\ NoneDone
      /\ facts_lock = NoThread
      /\ req' = [req EXCEPT ![t] =
                   [r EXCEPT !.pc = "render_history",
                             !.ctx = [@ EXCEPT !.facts = Get(key_facts, r.token)]]]
      /\ UNCHANGED << conversation_history, key_facts, history_file,
                      key_facts_file, history_lock, facts_lock, task_bots,
                      nEvents, procRuns, confirmState, trace >>

\* get_history_context: the history read under history_lock (app.py 1412-1458)
RenderHistory(t) ==
  LET r == req[t]
  IN  /\ r.pc = "render_history"
      /\ NoneDone
      /\ history_lock = NoThread
      /\ req' = [req EXCEPT ![t] =
                   [r EXCEPT !.pc = "call_claude",
                             !.ctx = get_history_context(r.ctx.facts,
                                                         conversation_history, r.token)]]
      /\ UNCHANGED << conversation_history, key_facts, history_file,
                      key_facts_file, history_lock, facts_lock, task_bots,
                      nEvents, procRuns, confirmState, trace >>

\* the "thinking" message and the reasoning-backend call (app.py 2171-2186);
\* the binding lookup of line 2171 only selects the wording of both
CallClaude(t, outcomes) ==
  LET r == req[t]
  IN  /\ r.pc = "call_claude"
      /\ NoneDone
      /\ \E outcome \in outcomes :
           LET res == call_claude(outcome)
           IN  req' = [req EXCEPT ![t] =
                         [r EXCEPT !.pc = "append_reply",
                                   !.response = res.response,
                                   !.backend = outcome,
                                   !.log = @ \o <<"thinking">>
                                             \o [i \in 1..res.calls |-> "backend"]]]
      /\ UNCHANGED << conversation_history, key_facts, history_file,
                      key_facts_file, history_lock, facts_lock, task_bots,
                      nEvents, procRuns, confirmState, trace >>

\* the reply is recorded and sent (app.py 2190-2209)
AppendReply(t) ==
  LET r == req[t]
  IN  /\ r.pc = "append_reply"
      /\ NoneDone
      /\ history_lock = NoThread
      /\ conversation_history' =
           add_to_history(conversation_history, r.token, "assistant", "Claude",
                          r.response, r.ev)
      /\ history_file' = conversation_history'
      /\ \E success \in BOOLEAN :
           req' = [req EXCEPT ![t] =
                     Answer(final_reply(
                              [r EXCEPT !.log = @ \o <<"hist_assistant", "reply">>],
                              success),
                            success)]
      /\ confirmState' = Finished(r.token, "other")
      /\ UNCHANGED << key_facts, key_facts_file, history_lock, facts_lock,
                      task_bots, nEvents, procRuns, trace >>

\* ------------------------------------- file, search and Deck commands

\* What a helper hands back: None, or a dict with the entries the handlers
\* read.
NoneResult == [none |-> TRUE, success |-> FALSE, shared |-> FALSE]

Dict(success, shared) == [none |-> FALSE, success |-> success, shared |-> shared]

\* share_file_to_conversation (app.py 318-369): a dict when the share was
\* made, None when the request failed or was refused
share_file_to_conversation(call_ok) ==
  IF call_ok THEN Dict(TRUE, FALSE) ELSE NoneResult

\* upload_file_to_nextcloud (app.py 495-561)
upload_file_to_nextcloud(call_ok) ==
  IF call_ok THEN Dict(TRUE, FALSE) ELSE NoneResult

\* upload_and_share_file (app.py 589-630)
upload_and_share_file(upload_ok, share_ok) ==
  LET upload_result == upload_file_to_nextcloud(upload_ok)
      share_result == share_file_to_conversation(share_ok)
  IN  IF upload_result.none \/ ~upload_result.success
      THEN Dict(FALSE, FALSE)
      ELSE IF ~share_result.none /\ share_result.success
      THEN Dict(TRUE, TRUE)
      ELSE Dict(TRUE, FALSE)

\* search_and_share_file (app.py 450-492): the search found a file or not
\* (a failed search finds nothing), then the share
search_and_share_file(found, share_ok) ==
  IF found /\ ~share_file_to_conversation(share_ok).none
  THEN Dict(TRUE, TRUE)
  ELSE Dict(FALSE, FALSE)

\* find_or_create_task (app.py 979-1042), get_deck_boards (914-928),
\* search_nextcloud_files (372-447), preview_document (794-817) and
\* download_and_preview_document (879-909): a dict or a list in every
\* case, failures included
dict_result(call_ok) == Dict(call_ok, FALSE)

\* `result and result.get('success')`
succeeded(result) == ~result.none /\ result.success

\* the reply of a handler whose else-branch reads result.get('error', ...)
\* (app.py 1883, 1932, 1964, 1979, 1997, 2012): None has no .get
reply_reading_error(result, good, bad) ==
  IF succeeded(result) THEN good
  ELSE IF result.none THEN "AttributeError"
  ELSE bad

\* the handler goes on to its last send_message with the reply it chose, or
\* an exception leaves it and the framework answers 500; notes are the
\* calls made on the way
reply_or_raise(r, notes, out) ==
  IF out = "AttributeError"
  THEN answered([r EXCEPT !.log = @ \o notes], 500, "error")
  ELSE [r EXCEPT !.pc = "send_final", !.out = out, !.log = @ \o notes]

\* the handlers below touch nothing shared
LocalStep ==
  UNCHANGED << conversation_history, key_facts, history_file,
               key_facts_file, history_lock, facts_lock, task_bots,
               nEvents, procRuns, confirmState, trace >>

\* a file, search or Deck command arrives on a free thread
ReceiveFile(t) ==
  /\ NoneDone
  /\ FirstIdle(t)
  /\ nEvents < MaxFileEvents
  /\ \E w \in FileRequests :
       req' = [req EXCEPT ![t] = enter(w, nEvents + 1, confirmState)]
  /\ nEvents' = nEvents + 1
  /\ UNCHANGED << conversation_history, key_facts, history_file,
                  key_facts_file, history_lock, facts_lock, task_bots,
                  procRuns, confirmState, trace >>

\* /task (app.py 1750-1773)
TaskCmd(t) ==
  LET r == req[t]
  IN  /\ r.pc = "task"
      /\ \E created \in BOOLEAN :
           LET result == dict_result(created)
           IN  req' = [req EXCEPT ![t] =
                         reply_or_raise(r, <<"notice", "deck">>,
                           IF result.success THEN "task_created"
                           ELSE "task_failed")]
      /\ LocalStep

\* /boards (app.py 1776-1785)
BoardsCmd(t) ==
  LET r == req[t]
  IN  /\ r.pc = "boards"
      /\ \E boards \in BOOLEAN :
           req' = [req EXCEPT ![t] =
                     reply_or_raise(r, <<"deck">>,
                       IF boards THEN "boards" ELSE "no_boards")]
      /\ LocalStep

\* /share (app.py 1842-1860)
ShareCmd(t) ==
  LET r == req[t]
  IN  /\ r.pc = "share"
      /\ \E share_ok \in BOOLEAN :
           LET result == share_file_to_conversation(share_ok)
           IN  req' = [req EXCEPT ![t] =
                         reply_or_raise(r, <<"notice", "share">>,
                           IF succeeded(result) THEN "shared"
                           ELSE "share_failed")]
      /\ LocalStep

\* /upload (app.py 1863-1885)
UploadCmd(t) ==
  LET r == req[t]
  IN  /\ r.pc = "upload"
      /\ \E exists, upload_ok, share_ok \in BOOLEAN :
           LET result == upload_and_share_file(upload_ok, share_ok)
           IN  req' = [req EXCEPT ![t] =
                         IF ~exists
                         THEN reply_or_raise(r, << >>, "not_found")
                         ELSE reply_or_raise(r, <<"notice", "upload">>,
                                reply_reading_error(result,
                                  IF result.shared THEN "uploaded_shared"
                                  ELSE "uploaded_not_shared",
                                  "upload_failed"))]
      /\ LocalStep

\* /zoek (app.py 1888-1915)
ZoekCmd(t) ==
  LET r == req[t]
  IN  /\ r.pc = "zoek"
      /\ \E results \in BOOLEAN :
           req' = [req EXCEPT ![t] =
                     reply_or_raise(r, <<"notice", "search">>,
                       IF results THEN "results" ELSE "none_found")]
      /\ LocalStep

\* /vind (app.py 1918-1934)
VindCmd(t) ==
  LET r == req[t]
  IN  /\ r.pc = "vind"
      /\ \E found, share_ok \in BOOLEAN :
           LET result == search_and_share_file(found, share_ok)
           IN  req' = [req EXCEPT ![t] =
                         reply_or_raise(r, <<"notice", "search">>,
                           reply_reading_error(result, "found_shared",
                                               "vind_failed"))]
      /\ LocalStep

\* the path a /preview command names, and what the handler derives from it
\* (app.py 1938-1947)
preview_kind(message_content) ==
  LET file_path == strip(SliceFrom(strip(message_content), 9))
      filename_lower == lower(basename(file_path))
  IN  [is_html |-> \/ endswith(filename_lower, <<".","h","t","m","l">>)
                   \/ endswith(filename_lower, <<".","h","t","m">>),
       is_local |-> \/ startswith(file_path, <<"/","h","o","m","e","/">>)
                    \/ startswith(file_path, <<"/","o","p","t","/">>)
                    \/ startswith(file_path, <<"/","t","m","p","/">>)]

\* /preview (app.py 1937-2014)
PreviewCmd(t) ==
  LET r == req[t]
      kind == preview_kind(Text(r.msg))
  IN  /\ r.pc = "preview"
      /\ \E exists, call_ok, share_ok \in BOOLEAN :
           req' = [req EXCEPT ![t] =
             IF kind.is_local /\ ~exists
             THEN reply_or_raise(r, << >>, "not_found")
             ELSE IF kind.is_local /\ kind.is_html
             THEN reply_or_raise(r, <<"notice", "upload">>,
                    reply_reading_error(
                      upload_and_share_file(call_ok, share_ok),
                      "preview_shared", "share_failed"))
             ELSE IF kind.is_html
             THEN reply_or_raise(r, <<"notice", "share">>,
                    reply_reading_error(
                      share_file_to_conversation(share_ok),
                      "preview_shared", "share_failed"))
             ELSE reply_or_raise(r, <<"notice", "extract">>,
                    reply_reading_error(dict_result(call_ok),
                                        "preview_text", "preview_failed"))]
      /\ LocalStep

\* the handler has returned: the thread is free again
Return(t) ==
  /\ req[t].pc = "done"
  /\ req' = [req EXCEPT ![t] = Idle]
  /\ UNCHANGED << conversation_history, key_facts, history_file,
                  key_facts_file, history_lock, facts_lock, task_bots,
                  nEvents, procRuns, confirmState, trace >>

\* the steps of a request that has arrived, up to the return of its thread
Handle(t, outcomes) ==
  \/ Return(t)
  \/ SendFinal(t)
  \/ Reset(t)
  \/ HistoryCount(t)
  \/ Remember(t)
  \/ Facts(t)
  \/ Forget(t)
  \/ ForgetSend(t)
  \/ Help(t)
  \/ DoneCmd(t)
  \/ Lookup(t)
  \/ ConfirmAsk(t)
  \/ ConfirmRecord(t)
  \/ Affirm(t)
  \/ CtUpdate(t)
  \/ CtMove(t)
  \/ CtNotify(t)
  \/ CtClose(t)
  \/ CtError(t)
  \/ DefaultUser(t)
  \/ RenderFacts(t)
  \/ RenderHistory(t)
  \/ CallClaude(t, outcomes)
  \/ AppendReply(t)

Step(t, max, requests, outcomes) ==
  \/ Receive(t, max, requests)
  \/ Handle(t, outcomes)

\* requests handled concurrently by the worker threads
Next == \E t \in Threads : Step(t, MaxEvents, Requests, AnswerOutcomes)

Spec == Init /\ [][Next]_vars

\* requests handled one at a time: each returns before the next arrives
NextSeq == Step("w1", MaxSeqEvents, Requests, AnswerOutcomes)

SpecSeq == Init /\ [][NextSeq]_vars

\* requests handled one at a time, with the prefix commands without an
\* argument among them and every outcome of the reasoning backend
NextTurn == Step("w1", MaxTurnEvents, TurnRequests, BackendOutcomes)

SpecTurn == Init /\ [][NextTurn]_vars

\* the file, search and Deck commands, handled one at a time
NextFiles ==
  \/ ReceiveFile("w1")
  \/ Return("w1")
  \/ SendFinal("w1")
  \/ TaskCmd("w1")
  \/ BoardsCmd("w1")
  \/ ShareCmd("w1")
  \/ UploadCmd("w1")
  \/ ZoekCmd("w1")
  \/ VindCmd("w1")
  \/ PreviewCmd("w1")

SpecFiles == Init /\ [][NextFiles]_vars

\* ---------------------------------------- add_to_history on its own

\* the handlers' variables, at rest
AtRest ==
  /\ history_lock = NoThread
  /\ facts_lock = NoThread
  /\ task_bots = [tk \in {"tA"} |-> [status |-> "active"]]
  /\ req = [t \in Threads |-> Idle]
  /\ nEvents = 0
  /\ procRuns = [tk \in Tokens |-> 0]
  /\ confirmState = [tk \in Tokens |-> "none"]

\* no history yet; trace keeps, per token, every entry ever appended, and
\* the number of snapshot writes that failed
InitHist ==
  /\ AtRest
  /\ conversation_history = EmptyDict
  /\ history_file = EmptyDict
  /\ key_facts = EmptyDict
  /\ key_facts_file = EmptyDict
  /\ trace = [k \in Tokens \cup {"failed_writes"} |->
                IF k \in Tokens THEN << >> ELSE 0]

\* one add_to_history call (app.py 1357-1373): user and assistant entries
\* alternate, and ev numbers the calls of the token; the write of the
\* snapshot succeeds or raises
AppendMessage(tk) ==
  LET n == Len(trace[tk]) + 1
      role == IF n % 2 = 1 THEN "user" ELSE "assistant"
      name == IF n % 2 = 1 THEN "Jan" ELSE "Claude"
      content == IF n % 2 = 1 THEN "m_plain" ELSE "r_plain"
  IN  /\ n <= MaxAppends
      /\ \E write_ok \in BOOLEAN :
           LET res == add_to_history_saved(conversation_history, history_file,
                                           tk, role, name, content, n, write_ok)
           IN  /\ write_ok \/ trace["failed_writes"] < MaxFailedWrites
               /\ conversation_history' = res.history
               /\ history_file' = res.file
               /\ trace' = [trace EXCEPT
                              ![tk] = Append(@, [role |-> role, name |-> name,
                                                 content |-> content, ev |-> n]),
                              !["failed_writes"] = IF write_ok THEN @ ELSE @ + 1]
      /\ UNCHANGED << key_facts, key_facts_file, history_lock, facts_lock,
                      task_bots, req, nEvents, procRuns, confirmState >>

NextHist == \E tk \in Tokens : AppendMessage(tk)

SpecHist == InitHist /\ [][NextHist]_vars

\* --------------------------------- the snapshot file across restarts

\* What load_history leaves in memory (app.py 1289-1296): nothing is read
\* when the file does not exist, the loaded dictionary when json.load
\* accepts the text, and {} when it raises. The text of the file is a
\* prefix of json.dump(snapshot): "all" of it, "some" of it or "none";
\* only the whole text ends with the closing brace json.load needs.
load_history(exists, snapshot, written) ==
  IF exists /\ written = "all" THEN snapshot ELSE EmptyDict

\* the process runs with no snapshot file; trace keeps the state of the
\* file's text, the last snapshot that was written to its end, the
\* position of the process and the counts of calls and restarts
InitCrash ==
  /\ AtRest
  /\ conversation_history = EmptyDict
  /\ history_file = EmptyDict
  /\ key_facts = EmptyDict
  /\ key_facts_file = EmptyDict
  /\ trace = [exists |-> FALSE, written |-> "all", good |-> EmptyDict,
              phase |-> "run", appends |-> 0, restarts |-> 0,
              loaded |-> FALSE]

\* add_to_history up to the open(HISTORY_FILE, 'w') of save_history
\* (app.py 1357-1373, 1312): the entry is in memory and the file is
\* truncated
AppendAndOpen(tk) ==
  LET n == trace.appends + 1
  IN  /\ trace.phase = "run"
      /\ n <= MaxCrashAppends
      /\ conversation_history' =
           add_to_history(conversation_history, tk, "user", "Jan", "m_plain", n)
      /\ history_file' = conversation_history'
      /\ trace' = [trace EXCEPT !.exists = TRUE, !.written = "none",
                                !.phase = "writing", !.appends = n,
                                !.loaded = FALSE]
      /\ UNCHANGED << key_facts, key_facts_file, history_lock, facts_lock,
                      task_bots, req, nEvents, procRuns, confirmState >>

\* json.dump has written a part of the text (app.py 1313)
Dump ==
  /\ trace.phase = "writing"
  /\ trace.written = "none"
  /\ trace' = [trace EXCEPT !.written = "some"]
  /\ UNCHANGED << conversation_history, history_file, key_facts,
                  key_facts_file, history_lock, facts_lock, task_bots, req,
                  nEvents, procRuns, confirmState >>

\* the with block ends: the whole text is in the file (app.py 1312-1313)
Close ==
  /\ trace.phase = "writing"
  /\ trace' = [trace EXCEPT !.written = "all", !.phase = "run",
                            !.good = history_file]
  /\ UNCHANGED << conversation_history, history_file, key_facts,
                  key_facts_file, history_lock, facts_lock, task_bots, req,
                  nEvents, procRuns, confirmState >>

\* the process is killed: memory is gone, the file stays as it is
Kill ==
  /\ trace.phase \in {"run", "writing"}
  /\ trace.restarts < MaxRestarts
  /\ conversation_history' = EmptyDict
  /\ trace' = [trace EXCEPT !.phase = "down", !.loaded = FALSE]
  /\ UNCHANGED << history_file, key_facts, key_facts_file, history_lock,
                  facts_lock, task_bots, req, nEvents, procRuns,
                  confirmState >>

\* the process starts again and calls load_history (app.py 1286-1296)
Restart ==
  /\ trace.phase = "down"
  /\ conversation_history' =
       load_history(trace.exists, history_file, trace.written)
  /\ trace' = [trace EXCEPT !.phase = "run", !.restarts = @ + 1,
                            !.loaded = TRUE]
  /\ UNCHANGED << history_file, key_facts, key_facts_file, history_lock,
                  facts_lock, task_bots, req, nEvents, procRuns,
                  confirmState >>

NextCrash ==
  \/ \E tk \in Tokens : AppendAndOpen(tk)
  \/ Dump
  \/ Close
  \/ Kill
  \/ Restart

SpecCrash == InitCrash /\ [][NextCrash]_vars

\* ------------------------------------------ verify_signature on its own

\* the strings of at most n characters written with "k" and "n"
RECURSIVE SigStrings(_)
SigStrings(n) ==
  IF n = 0
  THEN {<< >>}
  ELSE LET shorter == SigStrings(n - 1)
       IN  shorter \cup { Append(x, c) : x \in shorter, c \in {"k", "n"} }

\* the signatures offered with (secret, nonce, body): the digest itself, in
\* lower and in upper case, the digest made with the empty key, an altered
\* digest, no signature, and a character outside ASCII
SigOffers(secret, random_header, body) ==
  LET digest == hmac_hexdigest(secret, random_header \o body)
  IN  { digest, upper(digest), hmac_hexdigest(<< >>, random_header \o body),
        Tamper(digest), << >>, <<"E_ACUTE">> }

\* the characters a character of a secret, nonce or body may be changed to
OtherChars(c) == {"k", "n", "{"} \ {c}

\* the characters a character of a signature may be changed to: another
\* hex digit, the same letter in upper case, a character outside ASCII
OtherSigChars(c) ==
  ({IF c = "0" THEN "1" ELSE "0", UpperChar(c), "E_ACUTE"}) \ {c}

\* trace holds the arguments of the call, its result, and what was changed
InitSig ==
  /\ AtRest
  /\ conversation_history = EmptyDict
  /\ history_file = EmptyDict
  /\ key_facts = EmptyDict
  /\ key_facts_file = EmptyDict
  /\ \E secret \in SigStrings(MaxSigLen), random_header \in SigStrings(MaxSigLen),
        body \in SigStrings(MaxSigLen) :
       \E signature \in SigOffers(secret, random_header, body) :
         trace = [phase |-> "input", secret |-> secret,
                  random_header |-> random_header, body |-> body,
                  signature |-> signature, result |-> "", changed |-> "none"]

\* verify_signature is called with the arguments (app.py 1463-1472)
Verify ==
  /\ trace.phase = "input"
  /\ trace' = [trace EXCEPT
                 !.phase = "verified",
                 !.result = verify_signature(trace.secret, trace.random_header,
                                             trace.body, trace.signature)]
  /\ UNCHANGED << conversation_history, history_file, key_facts,
                  key_facts_file, history_lock, facts_lock, task_bots, req,
                  nEvents, procRuns, confirmState >>

\* one character of the body, the nonce or the signature of an accepted
\* call is changed and verify_signature is called again
ChangeOne ==
  /\ trace.phase = "verified"
  /\ trace.result = "True"
  /\ \E part \in {"body", "random_header", "signature"} :
       \E i \in 1..Len(trace[part]) :
         \E c \in IF part = "signature" THEN OtherSigChars(trace[part][i])
                                         ELSE OtherChars(trace[part][i]) :
           LET changed == [trace EXCEPT ![part] = [@ EXCEPT ![i] = c]]
           IN  trace' = [changed EXCEPT
                           !.phase = "changed",
                           !.changed = part,
                           !.result = verify_signature(changed.secret,
                                                       changed.random_header,
                                                       changed.body,
                                                       changed.signature)]
  /\ UNCHANGED << conversation_history, history_file, key_facts,
                  key_facts_file, history_lock, facts_lock, task_bots, req,
                  nEvents, procRuns, confirmState >>

NextSig == Verify \/ ChangeOne

SpecSig == InitSig /\ [][NextSig]_vars

\* ------------------------------- detect_completion_intent on its own

\* the strings of at most n characters written with a blank, "x" and "?"
RECURSIVE Pads(_)
Pads(n) ==
  IF n = 0
  THEN {<< >>}
  ELSE LET shorter == Pads(n - 1)
       IN  shorter \cup { Append(x, c) : x \in shorter, c \in {" ", "x", "?"} }

\* a phrase in lower case, in upper case and with a capital first letter
Cased(p) == {p, upper(p), <<UpperChar(p[1])>> \o Tail(p)}

\* The texts given to the classifier: every phrase of both lists in three
\* casings between two pads, every phrase with its last character missing,
\* every pair of an explicit and a confirmation phrase in both orders, and
\* texts with no phrase in them.
IntentTexts ==
  LET phrases == { explicit_phrases[i] : i \in 1..Len(explicit_phrases) }
                 \cup { confirm_phrases[i] : i \in 1..Len(confirm_phrases) }
  IN  { a \o c \o b : a \in Pads(MaxPad), b \in Pads(MaxPad),
                       c \in UNION { Cased(p) : p \in phrases } }
      \cup { SubSeq(p, 1, Len(p) - 1) : p \in phrases }
      \cup { explicit_phrases[i] \o <<" ">> \o confirm_phrases[j] :
               i \in 1..Len(explicit_phrases), j \in 1..Len(confirm_phrases) }
      \cup { confirm_phrases[j] \o <<",", " ">> \o upper(explicit_phrases[i]) :
               i \in 1..Len(explicit_phrases), j \in 1..Len(confirm_phrases) }
      \cup { << >>, Text("m_plain"), Text("m_ja"), Text("m_done"),
             <<"t","a","a","k"," "," ","i","s"," ","k","l","a","a","r">> }

\* trace holds the text and, once classified, the result
InitIntent ==
  /\ AtRest
  /\ conversation_history = EmptyDict
  /\ history_file = EmptyDict
  /\ key_facts = EmptyDict
  /\ key_facts_file = EmptyDict
  /\ \E text \in IntentTexts :
       trace = [phase |-> "input", text |-> text, result |-> ""]

\* detect_completion_intent is called with the text (app.py 44-78)
Classify ==
  /\ trace.phase = "input"
  /\ trace' = [trace EXCEPT !.phase = "classified",
                            !.result = detect_completion_intent(trace.text)]
  /\ UNCHANGED << conversation_history, history_file, key_facts,
                  key_facts_file, history_lock, facts_lock, task_bots, req,
                  nEvents, procRuns, confirmState >>

NextIntent == Classify

SpecIntent == InitIntent /\ [][NextIntent]_vars

\* ----------------------------------- get_history_context on its own

\* n history entries, user and assistant in turn, numbered by ev
HistoryOf(n) ==
  [i \in 1..n |->
     [role |-> IF i % 2 = 1 THEN "user" ELSE "assistant",
      name |-> IF i % 2 = 1 THEN "Jan" ELSE "Claude",
      content |-> IF i % 2 = 1 THEN "m_plain" ELSE "r_plain",
      ev |-> i]]

\* Conversation tA has up to MaxCtxFacts facts and up to MaxCtxMessages
\* history entries, or no entry in a dictionary at all; conversation tB has
\* a fact and a message of its own.
InitRender ==
  /\ AtRest
  /\ \E nf \in 0..MaxCtxFacts, n \in 0..MaxCtxMessages, listed \in BOOLEAN :
       LET facts == [i \in 1..nf |-> <<LowerLetters[i]>>]
       IN  /\ key_facts = IF nf = 0 /\ ~listed
                          THEN [tk \in {"tB"} |-> << <<"z">> >>]
                          ELSE [tk \in Tokens |->
                                  IF tk = "tA" THEN facts ELSE << <<"z">> >>]
           /\ conversation_history =
                IF n = 0 /\ ~listed
                THEN [tk \in {"tB"} |-> HistoryOf(1)]
                ELSE [tk \in Tokens |->
                        IF tk = "tA" THEN HistoryOf(n) ELSE HistoryOf(1)]
  /\ history_file = conversation_history
  /\ key_facts_file = key_facts
  /\ trace = [phase |-> "input", lines |-> << >>]

\* get_history_context("tA") is called (app.py 1399-1458)
RenderContext ==
  /\ trace.phase = "input"
  /\ trace' = [phase |-> "rendered",
               lines |-> history_context_lines(Get(key_facts, "tA"),
                                               conversation_history, "tA")]
  /\ UNCHANGED << conversation_history, history_file, key_facts,
                  key_facts_file, history_lock, facts_lock, task_bots, req,
                  nEvents, procRuns, confirmState >>

NextRender == RenderContext

SpecRender == InitRender /\ [][NextRender]_vars

\* --------------------------------------- truncate_message on its own

\* the values of max_length: the one get_history_context passes (app.py
\* 194, 1435) and small ones around the 20 the function subtracts
TruncLimits == {0, 10, 19, 20, 21, 22, 23, 40, 500}

\* a content of n characters: the letters of the alphabet in turn
ContentOf(n) == [i \in 1..n |-> LowerLetters[((i - 1) % 26) + 1]]

\* trace holds the arguments of the call and, once made, its result
InitTrunc ==
  /\ AtRest
  /\ conversation_history = EmptyDict
  /\ history_file = EmptyDict
  /\ key_facts = EmptyDict
  /\ key_facts_file = EmptyDict
  /\ \E max_length \in TruncLimits :
       \E n \in 0..(max_length + MaxOver) :
         trace = [phase |-> "input", content |-> ContentOf(n),
                  max_length |-> max_length, result |-> << >>]

\* truncate_message is called with the arguments (app.py 1389-1396)
Truncate ==
  /\ trace.phase = "input"
  /\ trace' = [trace EXCEPT
                 !.phase = "truncated",
                 !.result = truncate_message(trace.content, trace.max_length)]
  /\ UNCHANGED << conversation_history, history_file, key_facts,
                  key_facts_file, history_lock, facts_lock, task_bots, req,
                  nEvents, procRuns, confirmState >>

NextTrunc == Truncate

SpecTrunc == InitTrunc /\ [][NextTrunc]_vars

\* ------------------------------------- command handlers on their own

\* the commands of the handlers below, sent in both conversations
CmdMsgIds ==
  {"m_reset", "m_history", "m_facts", "m_help", "m_remember", "m_forget"}
  \cup FileMsgIds \cup InfoMsgIds

CmdRequests ==
  { Signed("maarten", EventBody("Create", "users", m, tk)) :
      m \in CmdMsgIds, tk \in Tokens }

\* both conversations have history and key facts
InitCmd ==
  /\ AtRest
  /\ conversation_history =
       [tk \in Tokens |-> IF tk = "tA" THEN HistoryOf(2) ELSE HistoryOf(1)]
  /\ history_file = conversation_history
  /\ key_facts =
       [tk \in Tokens |-> IF tk = "tA" THEN << <<"a">>, <<"b">> >>
                                        ELSE << <<"z">> >>]
  /\ key_facts_file = key_facts
  /\ trace = << >>

\* /whoami (app.py 1703-1706)
WhoamiCmd(t) ==
  LET r == req[t]
  IN  /\ r.pc = "whoami"
      /\ req' = [req EXCEPT ![t] = [r EXCEPT !.pc = "send_final", !.out = "whoami"]]
      /\ LocalStep

\* /status (app.py 2036-2050)
StatusCmd(t) ==
  LET r == req[t]
  IN  /\ r.pc = "status"
      /\ \E read_ok \in BOOLEAN :
           LET task_bot == get_task_bot_by_token(task_bots, r.token, read_ok)
           IN  req' = [req EXCEPT ![t] =
                         [r EXCEPT !.pc = "send_final", !.task_bot = task_bot,
                                   !.out = IF task_bot # "None" THEN "status"
                                                                 ELSE "not_task"]]
      /\ LocalStep

\* /transcribe (app.py 2054-2076): the file of the message is looked up,
\* downloaded and transcribed; each step may fail
TranscribeCmd(t) ==
  LET r == req[t]
  IN  /\ r.pc = "transcribe"
      /\ \E found \in BOOLEAN, downloaded \in BOOLEAN, transcribed \in BOOLEAN :
           req' = [req EXCEPT ![t] =
                     [r EXCEPT
                        !.pc = "send_final",
                        !.out = IF ~found THEN "no_audio"
                                ELSE IF ~downloaded THEN "no_download"
                                ELSE IF ~transcribed THEN "no_transcription"
                                ELSE "transcription",
                        !.log = IF ~found THEN @
                                ELSE IF ~downloaded THEN @ \o <<"notice", "download">>
                                ELSE @ \o <<"notice", "download", "whisper">>]]
      /\ LocalStep

NextCmd ==
  \/ Receive("w1", MaxCmdEvents, CmdRequests)
  \/ Return("w1")
  \/ SendFinal("w1")
  \/ Reset("w1")
  \/ HistoryCount("w1")
  \/ WhoamiCmd("w1")
  \/ Remember("w1")
  \/ Facts("w1")
  \/ Forget("w1")
  \/ ForgetSend("w1")
  \/ TaskCmd("w1")
  \/ BoardsCmd("w1")
  \/ Help("w1")
  \/ ShareCmd("w1")
  \/ UploadCmd("w1")
  \/ ZoekCmd("w1")
  \/ VindCmd("w1")
  \/ PreviewCmd("w1")
  \/ StatusCmd("w1")
  \/ TranscribeCmd("w1")

SpecCmd == InitCmd /\ [][NextCmd]_vars

\* ------------------------------ /facts beside /forget and /remember

\* /facts, /forget 1 and /remember in the conversation tA
RaceRequests ==
  { Signed("maarten", EventBody("Create", "users", m, "tA")) :
      m \in {"m_facts", "m_forget", "m_remember"} }

\* tA has three key facts
InitRace ==
  /\ AtRest
  /\ conversation_history = EmptyDict
  /\ history_file = EmptyDict
  /\ key_facts = [tk \in {"tA"} |-> << <<"a">>, <<"b">>, <<"c">> >>]
  /\ key_facts_file = key_facts
  /\ trace = << >>

\* /facts: get_key_facts takes facts_lock, returns key_facts.get(token, [])
\* and releases the lock (app.py 1351-1354, 1723). What it returns is the
\* list of the dictionary itself, not a copy.
FactsGet(t) ==
  LET r == req[t]
  IN  /\ r.pc = "facts"
      /\ facts_lock = NoThread
      /\ req' = [req EXCEPT ![t] =
                   [r EXCEPT !.pc = "facts_iter", !.fact_num = 0,
                             !.ctx = [@ EXCEPT !.facts = << >>]]]
      /\ LocalStep

\* /facts: one round of "for i, fact in enumerate(facts, 1)" (app.py
\* 1724-1727): the iterator reads the item at its index from the list as it
\* is now, and the loop ends when the index has reached the length of the
\* list as it is now
FactsIter(t) ==
  LET r == req[t]
      facts == Get(key_facts, r.token)
  IN  /\ r.pc = "facts_iter"
      /\ req' = [req EXCEPT ![t] =
                   IF r.fact_num < Len(facts)
                   THEN [r EXCEPT !.fact_num = @ + 1,
                                  !.ctx = [@ EXCEPT !.facts =
                                             Append(@, facts[r.fact_num + 1])]]
                   ELSE [r EXCEPT !.pc = "send_final", !.out = "facts",
                                  !.fact = Flatten(r.ctx.facts)]]
      /\ LocalStep

NextRace ==
  \E t \in Threads :
    \/ Receive(t, MaxRaceEvents, RaceRequests)
    \/ Return(t)
    \/ SendFinal(t)
    \/ FactsGet(t)
    \/ FactsIter(t)
    \/ Remember(t)
    \/ Forget(t)
    \/ ForgetSend(t)

SpecRace == InitRace /\ [][NextRace]_vars

\* ------------------------- two threads on one conversation, with locks

\* every message of MsgIds, sent to the conversation of the task
LockRequests ==
  { Signed("maarten", EventBody("Create", "users", m, "tA")) : m \in MsgIds }

\* The conversation has one fact, and its history ends with the
\* confirmation prompt: the state after "kunnen we afronden".
InitLocks ==
  /\ conversation_history =
       [tk \in {"tA"} |->
          << [role |-> "user", name |-> "Jan", content |-> "m_afronden", ev |-> 0],
             [role |-> "assistant", name |-> "Claude", content |-> CONFIRM_ENTRY,
              ev |-> 0] >>]
  /\ history_file = conversation_history
  /\ key_facts = [tk \in {"tA"} |-> << <<"a">> >>]
  /\ key_facts_file = key_facts
  /\ history_lock = NoThread
  /\ facts_lock = NoThread
  /\ task_bots = [tk \in {"tA"} |-> [status |-> "active"]]
  /\ req = [t \in Threads |-> Idle]
  /\ nEvents = 0
  /\ procRuns = [tk \in Tokens |-> 0]
  /\ confirmState = [tk \in Tokens |-> IF tk = "tA" THEN "prompted" ELSE "none"]
  /\ trace = << >>

NextLocks == \E t \in Threads : Step(t, MaxLockEvents, LockRequests, {"answer"})

SpecLocks == InitLocks /\ [][NextLocks]_vars

\* ------------------- the same two threads under fair scheduling

\* the messages whose handlers take a lock: an affirmation, an ordinary
\* turn, /reset and /forget
LiveRequests ==
  { Signed("maarten", EventBody("Create", "users", m, "tA")) :
      m \in {"m_ja", "m_plain", "m_reset", "m_forget"} }

\* the backend answers or times out
LiveOutcomes == {"answer", "timeout"}

NextLive ==
  \E t \in Threads :
    \/ Receive(t, MaxLiveEvents, LiveRequests)
    \/ Return(t)
    \/ SendFinal(t)
    \/ Reset(t)
    \/ Forget(t)
    \/ ForgetSend(t)
    \/ Lookup(t)
    \/ Affirm(t)
    \/ CtUpdate(t)
    \/ CtMove(t)
    \/ CtNotify(t)
    \/ CtClose(t)
    \/ CtError(t)
    \/ DefaultUser(t)
    \/ RenderFacts(t)
    \/ RenderHistory(t)
    \/ CallClaude(t, LiveOutcomes)
    \/ AppendReply(t)

\* A thread whose request can take a step is scheduled in the end: the
\* steps of a handler are statements of a running thread, each external
\* call in them returns or times out, and a thread that waits for a lock
\* gets it once the lock stays free.
Fairness == \A t \in Threads : WF_vars(Handle(t, LiveOutcomes))

SpecLive == InitLocks /\ [][NextLive]_vars /\ Fairness

\* ------------------------ two threads on two conversations with content

\* the events that write a store, sent to either conversation: /reset,
\* /remember, /forget, a completion phrase and an ordinary message
IsoRequests ==
  { Signed("maarten", EventBody("Create", "users", m, tk)) :
      m \in {"m_reset", "m_remember", "m_forget", "m_klaar", "m_plain"},
      tk \in Tokens }

NextIso ==
  \E t \in Threads :
    \/ Receive(t, MaxIsoEvents, IsoRequests)
    \/ Return(t)
    \/ SendFinal(t)
    \/ Reset(t)
    \/ Remember(t)
    \/ Forget(t)
    \/ ForgetSend(t)
    \/ Lookup(t)
    \/ CtUpdate(t)
    \/ CtMove(t)
    \/ CtNotify(t)
    \/ CtClose(t)
    \/ CtError(t)
    \/ DefaultUser(t)
    \/ RenderFacts(t)
    \/ RenderHistory(t)
    \/ CallClaude(t, {"answer"})
    \/ AppendReply(t)

\* both conversations start with history and key facts
SpecIso == InitCmd /\ [][NextIso]_vars

\* -------------------------- add_to_history calls of several threads

\* The history of tA is empty or one entry short of the cap; trace keeps
\* the calls in the order in which they took the lock.
InitAppend ==
  /\ history_lock = NoThread
  /\ facts_lock = NoThread
  /\ task_bots = [tk \in {"tA"} |-> [status |-> "active"]]
  /\ req = [t \in Threads |-> Idle]
  /\ nEvents = 0
  /\ procRuns = [tk \in Tokens |-> 0]
  /\ confirmState = [tk \in Tokens |-> "none"]
  /\ key_facts = EmptyDict
  /\ key_facts_file = EmptyDict
  /\ \E n \in {0, MAX_HISTORY_MESSAGES * 2 - 1} :
       /\ conversation_history =
            IF n = 0 THEN EmptyDict ELSE [tk \in {"tA"} |-> HistoryOf(n)]
       /\ trace = [i \in 1..n |-> [token |-> "tA", ev |-> i]]
  /\ history_file = conversation_history

\* what the steps of add_to_history leave alone
AppendFrame ==
  UNCHANGED << key_facts, key_facts_file, facts_lock, task_bots, procRuns,
               confirmState >>

\* a thread calls add_to_history(token, ...) (app.py 1357)
CallAppend(t, tk) ==
  /\ req[t].pc = "idle"
  /\ nEvents < MaxCalls
  /\ nEvents' = nEvents + 1
  /\ req' = [req EXCEPT ![t] = [Idle EXCEPT !.pc = "acquire", !.token = tk]]
  /\ UNCHANGED << conversation_history, history_file, history_lock, trace >>
  /\ AppendFrame

\* with history_lock: (app.py 1359)
AcquireLock(t) ==
  LET got == acquire(history_lock, t)
      ev == Len(trace) + 1
  IN  /\ req[t].pc = "acquire"
      /\ got.ok
      /\ history_lock' = got.lock
      /\ trace' = Append(trace, [token |-> req[t].token, ev |-> ev])
      /\ req' = [req EXCEPT ![t] = [@ EXCEPT !.pc = "check", !.ev = ev]]
      /\ UNCHANGED << conversation_history, history_file, nEvents >>
      /\ AppendFrame

\* if token not in conversation_history (app.py 1360)
CheckToken(t) ==
  /\ req[t].pc = "check"
  /\ req' = [req EXCEPT ![t] =
               [@ EXCEPT !.pc = IF req[t].token \in DOMAIN conversation_history
                                THEN "append" ELSE "create"]]
  /\ UNCHANGED << conversation_history, history_file, history_lock, nEvents,
                  trace >>
  /\ AppendFrame

\* conversation_history[token] = [] (app.py 1361)
CreateList(t) ==
  /\ req[t].pc = "create"
  /\ conversation_history' = Put(conversation_history, req[t].token, << >>)
  /\ req' = [req EXCEPT ![t] = [@ EXCEPT !.pc = "append"]]
  /\ UNCHANGED << history_file, history_lock, nEvents, trace >>
  /\ AppendFrame

\* conversation_history[token].append({...}) (app.py 1363-1368)
AppendEntry(t) ==
  LET r == req[t]
  IN  /\ r.pc = "append"
      /\ conversation_history' =
           Put(conversation_history, r.token,
               Append(Get(conversation_history, r.token),
                      [role |-> "user", name |-> "Jan", content |-> "m_plain",
                       ev |-> r.ev]))
      /\ req' = [req EXCEPT ![t] = [r EXCEPT !.pc = "cap"]]
      /\ UNCHANGED << history_file, history_lock, nEvents, trace >>
      /\ AppendFrame

\* the cap (app.py 1370-1371)
CapList(t) ==
  LET r == req[t]
      list == Get(conversation_history, r.token)
  IN  /\ r.pc = "cap"
      /\ conversation_history' =
           IF Len(list) > MAX_HISTORY_MESSAGES * 2
           THEN Put(conversation_history, r.token,
                    LastN(list, MAX_HISTORY_MESSAGES * 2))
           ELSE conversation_history
      /\ req' = [req EXCEPT ![t] = [r EXCEPT !.pc = "save"]]
      /\ UNCHANGED << history_file, history_lock, nEvents, trace >>
      /\ AppendFrame

\* save_history() and the end of the with block (app.py 1373)
SaveAndRelease(t) ==
  /\ req[t].pc = "save"
  /\ \E write_ok \in BOOLEAN :
       history_file' = save_history(history_file, conversation_history, write_ok)
  /\ history_lock' = NoThread
  /\ req' = [req EXCEPT ![t] = Idle]
  /\ UNCHANGED << conversation_history, nEvents, trace >>
  /\ AppendFrame

NextAppend ==
  \E t \in Threads :
    \/ \E tk \in Tokens : CallAppend(t, tk)
    \/ AcquireLock(t)
    \/ CheckToken(t)
    \/ CreateList(t)
    \/ AppendEntry(t)
    \/ CapList(t)
    \/ SaveAndRelease(t)

SpecAppend == InitAppend /\ [][NextAppend]_vars

\* ------------------------------- /remember and /forget on their own

\* the k-th fact text: the k-th letter
FactText(k) == <<LowerLetters[k]>>

\* the arguments given to /forget: in range, zero, negative, too large
ForgetArgs ==
  { <<"1">>, <<"3">>, <<"2","0">>, <<"0">>, <<"-","1">>, <<"2","1">>,
    <<"9","9">> }

\* the /remember and /forget commands of a run, as the command checks of
\* handle_webhook parse them
RememberCommands ==
  { [k |-> k,
     to |-> route(<<"/","r","e","m","e","m","b","e","r"," ">> \o FactText(k))] :
    k \in 1..MaxFact }

ForgetCommands ==
  { route(<<"/","f","o","r","g","e","t"," ">> \o arg) : arg \in ForgetArgs }

\* no facts yet; trace keeps how many fresh facts and how many other calls
\* were made, and the last call with what it returned
InitFacts ==
  /\ AtRest
  /\ conversation_history = EmptyDict
  /\ history_file = EmptyDict
  /\ key_facts = EmptyDict
  /\ key_facts_file = EmptyDict
  /\ trace = [fresh |-> 0, free |-> 0, op |-> "none", fact |-> << >>,
              fact_num |-> 0, ret |-> FALSE, out |-> "", write_ok |-> TRUE]

\* "/remember <fact>" as the handler runs it: the text is parsed by the
\* command checks and add_key_fact is called (app.py 1709-1715, 1332-1348).
\* k is either the next fresh fact or one offered before.
RememberCall(k, to) ==
  LET res == add_key_fact(key_facts, "tA", to.fact)
      is_fresh == k = trace.fresh + 1
  IN  /\ k <= trace.fresh + 1
      /\ is_fresh \/ trace.free < MaxFreeOps
      /\ to.pc = "remember"
      /\ \E write_ok \in BOOLEAN :
           /\ key_facts' = res.facts
           /\ key_facts_file' =
                IF res.saved
                THEN save_key_facts(key_facts_file, res.facts, write_ok)
                ELSE key_facts_file
           /\ trace' = [fresh |-> IF is_fresh THEN k ELSE trace.fresh,
                        free |-> IF is_fresh THEN trace.free ELSE trace.free + 1,
                        op |-> "add", fact |-> to.fact, fact_num |-> 0,
                        ret |-> res.ret,
                        out |-> IF res.ret THEN "remembered" ELSE "duplicate",
                        write_ok |-> write_ok]
      /\ UNCHANGED << conversation_history, history_file, history_lock,
                      facts_lock, task_bots, req, nEvents, procRuns,
                      confirmState >>

\* "/forget <n>" as the handler runs it (app.py 1735-1746)
ForgetCall(to) ==
  LET res == forget_fact(key_facts, "tA", to.fact_num)
  IN  /\ trace.free < MaxFreeOps
      /\ to.pc = "forget"
      /\ \E write_ok \in BOOLEAN :
           /\ key_facts' = res.facts
           /\ key_facts_file' =
                IF res.removed
                THEN save_key_facts(key_facts_file, res.facts, write_ok)
                ELSE key_facts_file
           /\ trace' = [trace EXCEPT !.free = @ + 1, !.op = "forget",
                                     !.fact = << >>, !.fact_num = to.fact_num,
                                     !.ret = res.removed,
                                     !.out = forget_reply(res.removed),
                                     !.write_ok = write_ok]
      /\ UNCHANGED << conversation_history, history_file, history_lock,
                      facts_lock, task_bots, req, nEvents, procRuns,
                      confirmState >>

NextFacts ==
  \/ \E c \in RememberCommands : RememberCall(c.k, c.to)
  \/ \E to \in ForgetCommands : ForgetCall(to)

SpecFacts == InitFacts /\ [][NextFacts]_vars


\* ============================================================== claims

\* vocabulary of the properties
Has(log, x) == \E i \in 1..Len(log) : log[i] = x

Count(log, x) == Cardinality({i \in 1..Len(log) : log[i] = x})

StatusOf(tk) == IF tk \in DOMAIN task_bots THEN task_bots[tk].status ELSE "None"

\* the latest history entry of a conversation contains the confirmation words
MarkerInTail(tk) ==
  LET h == Get(conversation_history, tk)
  IN  /\ Len(h) > 0
      /\ Contains(<<"b","e","v","e","s","t","i","g","i","n","g"," ",
                    "v","o","o","r"," ","a","f","r","o","n","d","e","n">>,
                  Text(h[Len(h)].content))

\* the latest history entry of a conversation is the confirmation entry
PromptIsTail(tk) ==
  LET h == Get(conversation_history, tk)
  IN  /\ Len(h) > 0
      /\ h[Len(h)].content = CONFIRM_ENTRY
      /\ h[Len(h)].role = "assistant"

\* the positions inside the completion procedure, and after it
CompletionPcs == {"ct_update", "ct_move", "ct_notify", "ct_close", "ct_error"}

\* what only the default path and the confirmation step leave in a log
TurnMarks ==
  {"prompt", "hist_user", "hist_assistant", "thinking", "backend", "reply"}

\* the procedure ran to its end: either (a) committed, the completion reply
\* was sent and the deletion requested, or (a) failed and the error reply
\* was sent
RanToEnd(log) ==
  \/ /\ Has(log, "db_commit") /\ Has(log, "task_done") /\ Has(log, "delete_room")
     /\ ~Has(log, "task_error")
  \/ /\ Has(log, "db_error") /\ Has(log, "task_error")
     /\ ~Has(log, "task_done") /\ ~Has(log, "delete_room")

\* ------------------------------------------------------------------ C1
\* C1: a request for a configured bot whose signature does not verify
\* (wrong, missing, or the bot's secret is empty) is answered 401 before the
\* body is parsed, and nothing is sent for it.
C1_InvalidSignatureIs401 ==
  \A t \in Threads :
    req[t].verified \in {"False", "TypeError"} =>
      /\ req[t].resp = 401
      /\ ~req[t].parsed
      /\ req[t].log = << >>

\* ------------------------------------------------------------------ C2
\* C2: the completion procedure runs at most once per binding, and it is
\* only under way while the binding is active.
C2_CompletionRunsOnce ==
  /\ \A tk \in Tokens : procRuns[tk] <= 1
  /\ \A t \in Threads :
       req[t].pc = "ct_update" => StatusOf(req[t].token) = "active"

\* ------------------------------------------------------------------ C3
\* the positions from which a thread's next step is a network call, the
\* sleep or the reasoning-backend call
ExternalCallPcs ==
  {"send_final", "forget_send", "confirm", "ct_move", "ct_notify",
   "ct_close", "ct_error", "call_claude"}

\* C3: a thread about to make an external network call, to sleep or to call
\* the reasoning backend holds neither history_lock nor facts_lock.
C3_NoLockAcrossExternalCall ==
  \A t \in Threads :
    req[t].pc \in ExternalCallPcs => history_lock # t /\ facts_lock # t

\* ------------------------------------------------------------------ C4
\* C4: turns of one conversation are serialized: every user message that is
\* not the last entry is followed by the assistant reply of the same request,
\* and a reply is appended to the history its context was rendered from.
C4_TurnsSerialized ==
  /\ \A tk \in DOMAIN conversation_history :
       LET h == conversation_history[tk]
       IN  \A i \in 1..(Len(h) - 1) :
             h[i].role = "user" =>
               h[i + 1].role = "assistant" /\ h[i + 1].ev = h[i].ev
  /\ \A t \in Threads :
       req[t].pc = "append_reply" =>
         req[t].ctx.messages =
           LastN(Get(conversation_history, req[t].token), MAX_HISTORY_MESSAGES)

\* ------------------------------------------------------------------ C5
\* the messages that are no command and carry an explicit completion phrase
ExplicitMsgs ==
  {m \in MsgIds : /\ route(Text(m)).pc = "lookup"
                  /\ detect_completion_intent(Text(m)) = "complete"}

\* C5 as stated: a message with an explicit completion phrase on an active
\* binding ends with the binding completed and nothing of the default path
\* done.
C5_ExplicitPhraseSetsCompleted ==
  \A t \in Threads :
    (req[t].path = "intent" /\ req[t].pc = "done") =>
      /\ StatusOf(req[t].token) = "completed"
      /\ \A x \in TurnMarks : ~Has(req[t].log, x)

\* C5, amended: a message that is no command and carries an explicit
\* completion phrase, handled with the binding looked up as active, goes
\* straight into the completion procedure: no confirmation prompt, no history
\* entry, no backend call; the procedure runs to its end, and the binding is
\* completed once step (a) has committed (when step (a) fails the error
\* reply is sent instead).
C5_ExplicitPhraseCompletes ==
  \A t \in Threads :
    LET r == req[t]
    IN  /\ (r.task_bot = "active" /\ r.msg \in ExplicitMsgs) => r.path = "intent"
        /\ r.path = "intent" =>
             /\ r.pc \in CompletionPcs \cup {"done"}
             /\ \A x \in TurnMarks : ~Has(r.log, x)
             /\ Has(r.log, "db_commit") => StatusOf(r.token) = "completed"
             /\ r.pc = "done" => RanToEnd(r.log)

\* an explicit phrase was handled on an active binding and completed it
C5_Witness ==
  \E t \in Threads :
    /\ req[t].pc = "done"
    /\ req[t].path = "intent"
    /\ req[t].msg = "m_klaar"
    /\ Has(req[t].log, "delete_room")
    /\ StatusOf(req[t].token) = "completed"

\* ------------------------------------------------------------------ C6
\* C6 as stated: an affirmation that finds the confirmation prompt as the
\* latest history entry ends with the binding completed.
C6_AffirmationSetsCompleted ==
  \A t \in Threads :
    (req[t].path = "aff" /\ req[t].pc = "done") =>
      StatusOf(req[t].token) = "completed"

\* the confirmation step: one prompt sent, the confirmation entry latest in
\* the history when the handler returns, no UPDATE attempted; and the
\* affirmation path: completed once step (a) has committed
C6_State ==
  \A t \in Threads :
    LET r == req[t]
    IN  /\ (r.pc = "done" /\ Has(r.log, "prompt")) =>
             /\ Count(r.log, "prompt") = 1
             /\ ~Has(r.log, "db_commit") /\ ~Has(r.log, "db_error")
             /\ PromptIsTail(r.token)
             /\ conversation_history[r.token]
                  [Len(conversation_history[r.token])].ev = r.ev
        /\ r.path = "aff" =>
             /\ r.pc \in CompletionPcs \cup {"done"}
             /\ Has(r.log, "db_commit") => StatusOf(r.token) = "completed"
             /\ r.pc = "done" => RanToEnd(r.log)

\* the steps of the confirmation branch leave the bindings alone, and an
\* affirmation tested while the confirmation entry is latest enters the
\* completion procedure
C6_Step ==
  \A t \in Threads :
    /\ (req[t].pc \in {"confirm", "confirm_record"} /\ req'[t] # req[t])
         => task_bots' = task_bots
    /\ (req[t].pc = "affirm" /\ req'[t].pc # "affirm" /\ PromptIsTail(req[t].token))
         => (req'[t].pc = "ct_update" /\ req'[t].path = "aff")

\* C6, amended: a confirm-verdict phrase on an active binding sends exactly
\* one confirmation prompt, leaves the confirmation entry as the latest
\* history entry and changes no binding; an affirmation tested while that
\* entry is the latest one runs the completion procedure, and the binding is
\* completed once step (a) has committed (when step (a) fails the error
\* reply is sent and the status is left as it was).
C6_ConfirmThenAffirm == []C6_State /\ [][C6_Step]_vars

\* a confirmation was asked, and the affirmation that followed completed
\* the binding
C6_Witness ==
  \E t \in Threads :
    /\ req[t].pc = "done"
    /\ req[t].path = "aff"
    /\ req[t].msg = "m_ja"
    /\ Has(req[t].log, "delete_room")
    /\ StatusOf(req[t].token) = "completed"
    /\ PromptIsTail(req[t].token)

C7_Step ==
  \A t \in Threads :
    (req[t].pc = "affirm" /\ req'[t].pc # "affirm") =>
      /\ (req'[t].pc = "ct_update") <=> MarkerInTail(req[t].token)
      /\ (req'[t].pc = "default") <=> ~MarkerInTail(req[t].token)

\* while the procedure runs on the affirmation path the entry stays latest
C7_State ==
  \A t \in Threads :
    (req[t].path = "aff" /\ req[t].pc \in CompletionPcs) =>
      MarkerInTail(req[t].token)

C8_State ==
  \A t \in Threads :
    LET r == req[t]
    IN  Has(r.log, "db_error") =>
          /\ r.pc \in {"ct_error", "done"}
          /\ \A x \in MoveOutcomes \cup
                      {"db_commit", "task_done", "sleep", "delete_room"} :
               ~Has(r.log, x)
          /\ r.pc = "done" => Has(r.log, "task_error")

\* the failing step (a) leaves every binding as it was
C8_Step ==
  \A t \in Threads :
    (~Has(req[t].log, "db_error") /\ Has(req'[t].log, "db_error")) =>
      task_bots' = task_bots

\* C8: when step (a) of the completion procedure fails, the card is not
\* moved, no completion reply is sent, the conversation is not deleted, the
\* binding keeps its status, and an error reply is sent.
C8_FailedUpdateAborts == []C8_State /\ [][C8_Step]_vars

\* step (a) failed on a binding that is still active, and the handler returned
C8_Witness ==
  \E t \in Threads :
    /\ req[t].pc = "done"
    /\ Has(req[t].log, "db_error")
    /\ Has(req[t].log, "task_error")
    /\ StatusOf(req[t].token) = "active"

\* ------------------------------------------------------------------ C9
\* C9: when step (b) fails, whichever way (the stack list cannot be read,
\* no done stack, the move is refused or raises), the binding is completed,
\* the completion reply is sent and the deletion is requested.
C9_FailedMoveStillCompletes ==
  \A t \in Threads :
    LET r == req[t]
    IN  \A o \in MoveOutcomes \ {"moved"} :
          Has(r.log, o) =>
            /\ Has(r.log, "db_commit")
            /\ StatusOf(r.token) = "completed"
            /\ r.pc \in {"ct_notify", "ct_close", "done"}
            /\ ~Has(r.log, "task_error")
            /\ r.pc = "done" =>
                 Has(r.log, "task_done") /\ Has(r.log, "delete_room")

\* the card move failed and the handler returned
C9_Witness ==
  \E t \in Threads :
    /\ req[t].pc = "done"
    /\ Has(req[t].log, "no_done_stack")
    /\ Has(req[t].log, "delete_room")

\* ----------------------------------------------------------------- C10
\* every step keeps every binding, and changes a status only from active to
\* completed
C10_Step ==
  /\ DOMAIN task_bots' = DOMAIN task_bots
  /\ \A tk \in DOMAIN task_bots :
       task_bots'[tk].status # task_bots[tk].status =>
         /\ task_bots[tk].status = "active"
         /\ task_bots'[tk].status = "completed"

\* C10: a binding's status only ever changes from active to completed, and
\* no handler deletes a binding.
C10_StatusMonotonic == [][C10_Step]_vars

\* the UPDATE ran a second time, on a binding already completed
C10_Witness ==
  /\ procRuns["tA"] = 2
  /\ StatusOf("tA") = "completed"

\* ----------------------------------------------------------------- C11
\* C11: after any sequence of add_to_history calls on a token its history
\* has at most 2 * MAX_HISTORY_MESSAGES entries, and they are the most
\* recently appended ones, in call order.
C11_HistoryIsRecentSuffix ==
  \A tk \in Tokens :
    LET all == trace[tk]
        h == Get(conversation_history, tk)
        kept == IF Len(all) > MAX_HISTORY_MESSAGES * 2
                THEN MAX_HISTORY_MESSAGES * 2 ELSE Len(all)
    IN  /\ Len(h) <= MAX_HISTORY_MESSAGES * 2
        /\ Len(h) = kept
        /\ \A i \in 1..kept : h[i] = all[Len(all) - kept + i]

\* more entries were appended to a token than the cap keeps
C11_Witness ==
  /\ Len(trace["tA"]) = MAX_HISTORY_MESSAGES * 2 + 2
  /\ Len(conversation_history["tA"]) = MAX_HISTORY_MESSAGES * 2
  /\ conversation_history["tA"][1].ev = 3

\* ----------------------------------------------------------------- C12
\* C12: after any sequence of /remember and /forget calls a token has at
\* most 20 key facts, all different; after n distinct facts were added and
\* nothing else was done, the list is the newest min(n, 20) of them in
\* insertion order.
C12_FactsCappedDistinct ==
  LET f == Get(key_facts, "tA")
      n == trace.fresh
      kept == IF n > MAX_FACTS THEN MAX_FACTS ELSE n
  IN  /\ Len(f) <= MAX_FACTS
      /\ \A i, j \in 1..Len(f) : i # j => f[i] # f[j]
      /\ trace.free = 0 =>
           /\ Len(f) = kept
           /\ \A i \in 1..kept : f[i] = FactText(n - kept + i)

\* 21 distinct facts were added: the first one is gone
C12_Witness ==
  /\ trace.free = 0
  /\ trace.fresh = MAX_FACTS + 1
  /\ Len(key_facts["tA"]) = MAX_FACTS
  /\ key_facts["tA"][1] = FactText(2)
  /\ key_facts["tA"][MAX_FACTS] = FactText(MAX_FACTS + 1)

\* ----------------------------------------------------------------- C13
\* what one add_key_fact call does, seen from the state before and after
C13_Step ==
  (trace'.op = "add" /\ trace' # trace) =>
    LET f == Get(key_facts, "tA")
        g == Get(key_facts', "tA")
        fact == trace'.fact
    IN  IF \E i \in 1..Len(f) : f[i] = fact
        THEN /\ trace'.ret = FALSE
             /\ key_facts' = key_facts
             /\ key_facts_file' = key_facts_file
        ELSE /\ trace'.ret = TRUE
             /\ Len(g) > 0 /\ g[Len(g)] = fact
             /\ SubSeq(g, 1, Len(g) - 1) =
                  (IF Len(f) = MAX_FACTS THEN Tail(f) ELSE f)
             /\ key_facts_file' =
                  (IF trace'.write_ok THEN key_facts' ELSE key_facts_file)

\* C13: add_key_fact with a fact the token already has returns False and
\* changes neither the list in memory nor the snapshot file; with any other
\* fact it appends it, writes the snapshot (a write that fails leaves the
\* file as it was) and returns True.
C13_AddKeyFactContract == [][C13_Step]_vars

\* a fact was offered a second time and refused, the list kept as it was
C13_Witness ==
  /\ trace.op = "add"
  /\ trace.ret = FALSE
  /\ \E i \in 1..Len(key_facts["tA"]) : key_facts["tA"][i] = trace.fact
  /\ key_facts_file = key_facts

\* ----------------------------------------------------------------- C14
\* what a /forget with an index outside the list does
C14_Step ==
  (trace'.op = "forget" /\ trace' # trace) =>
    LET index == trace'.fact_num + 1
    IN  (index < 1 \/ index > Len(Get(key_facts, "tA"))) =>
          /\ trace'.out = "bad_number"
          /\ key_facts' = key_facts
          /\ key_facts_file' = key_facts_file

\* C14: /forget with a one-based index outside 1..len(key facts), be it 0,
\* negative or too large, is answered with the invalid-number reply and
\* leaves the key facts as they were.
C14_ForgetOutOfRange == [][C14_Step]_vars

\* /forget 99 was refused on a token with three facts
C14_Witness ==
  /\ trace.op = "forget"
  /\ trace.fact_num = 98
  /\ trace.out = "bad_number"
  /\ Len(Get(key_facts, "tA")) = 3

\* ----------------------------------------------------------------- C15
\* C15: a request on a route whose bot is not configured, and no other
\* request, is answered 404, and for it the signature is never checked, the
\* body never read and nothing sent.
C15_UnknownBotIs404 ==
  \A t \in Threads :
    LET r == req[t]
    IN  r.pc # "idle" =>
          /\ (r.user \notin DOMAIN BOTS) <=> (r.resp = 404)
          /\ r.user \notin DOMAIN BOTS =>
               /\ r.pc = "done"
               /\ r.verified = ""
               /\ ~r.parsed
               /\ r.log = << >>

\* a request arrived on the route of the unconfigured bot
C15_Witness ==
  \E t \in Threads :
    /\ req[t].user = "freek"
    /\ req[t].pc = "done"
    /\ req[t].resp = 404

\* ----------------------------------------------------------------- C16
\* the shared state a handler can change
Shared ==
  << conversation_history, key_facts, history_file, key_facts_file,
     task_bots, history_lock, facts_lock >>

\* the event is one the handler must ignore
Ignorable(data) ==
  /\ data.object
  /\ \/ data.type \notin {"Create", "Activity"}
     \/ data.actor = "Application"
     \/ data.content = ""
     \/ data.target = ""

\* an ignorable event is answered 200 "ignored" with nothing sent
C16_State ==
  \A t \in Threads :
    LET r == req[t]
    IN  (r.parsed /\ Ignorable(r.data)) =>
          /\ r.pc = "done"
          /\ r.resp = 200
          /\ r.status = "ignored"
          /\ r.log = << >>

\* the step that handles an ignorable event changes nothing shared
C16_Step ==
  \A t \in Threads :
    (req[t].pc = "idle" /\ req'[t].parsed /\ Ignorable(req'[t].data)) =>
      Shared' = Shared

\* C16: an event whose type is neither Create nor Activity, whose actor is
\* an Application, or that has no content or no conversation token is
\* answered 200 with status ignored; it changes no history, key fact or
\* binding and sends nothing.
C16_IgnoredEvents == []C16_State /\ [][C16_Step]_vars

\* ----------------------------------------------------------------- C17
\* C17: a request with a valid signature whose body is not parseable JSON
\* is rejected with 400; it changes no history, key fact or binding and
\* sends nothing.
C17_UnparseableIs400 ==
  \A t \in Threads :
    LET r == req[t]
    IN  (r.verified = "True" /\ r.parsed /\ ~r.data.ok) =>
          /\ r.pc = "done"
          /\ r.resp = 400
          /\ r.log = << >>

\* ----------------------------------------------------------------- C18
\* a reply was handed to send_message as the handler's last act
Replied(r) == r.out # "" /\ Len(r.log) > 0 /\ r.log[Len(r.log)] = r.out

\* C18: whatever external call of a command handler fails (share, upload,
\* search, card creation, board listing, document preview), the handler
\* sends a reply to the user and the request ends with HTTP 200; no failure
\* leaves handle_webhook as an exception.
C18_ExternalFailuresAnswered ==
  \A t \in Threads :
    LET r == req[t]
    IN  (r.pc = "done" /\ r.msg \in FileMsgIds) =>
          /\ r.resp = 200
          /\ r.status \in {"ok", "failed"}
          /\ Replied(r)

\* ----------------------------------------------------------------- C19
\* C19: an event that is authenticated, parsed and not ignored is answered
\* 200, with status ok exactly when the final reply to the conversation
\* was delivered and status failed when its delivery failed.
C19_StatusTellsDelivery ==
  \A t \in Threads :
    LET r == req[t]
    IN  (r.pc = "done" /\ r.token # "") =>
          /\ r.resp = 200
          /\ r.status = "ok" <=> r.delivered = "yes"
          /\ r.status = "failed" <=> r.delivered = "no"

\* ----------------------------------------------------------------- C20
\* the messages of the model that are commands
CommandMsgs ==
  {"m_reset", "m_history", "m_facts", "m_help", "m_done", "m_remember",
   "m_forget"}

\* the commands whose text also contains an explicit completion phrase
PhraseCommands ==
  {m \in CommandMsgs : detect_completion_intent(Text(m)) = "complete"}

\* the messages with a completion or confirmation phrase
IntentMsgs == {m \in MsgIds : detect_completion_intent(Text(m)) # "None"}

\* the positions of the handler behind the command checks
FreeTextPcs ==
  {"lookup", "confirm", "confirm_record", "affirm", "default",
   "render_facts", "render_history", "call_claude", "append_reply"}

\* the positions of the default path
DefaultPcs ==
  {"default", "render_facts", "render_history", "call_claude", "append_reply"}

\* the positions of the command handlers
CommandPcs ==
  {"reset", "history", "facts", "help", "done_cmd", "remember", "forget",
   "forget_send", "send_final"}

\* a command is handled by its handler alone, a phrase on an active binding
\* goes before the affirmation test, and both go before the default path
C20_State ==
  \A t \in Threads :
    LET r == req[t]
    IN  r.token # "" =>
          /\ r.msg \in CommandMsgs =>
                /\ r.pc \notin FreeTextPcs
                /\ r.path \in {"", "done"}
                /\ r.pc \in CompletionPcs => r.msg = "m_done"
                /\ \A i \in 1..Len(r.log) : r.log[i] \notin TurnMarks
          /\ r.msg \notin CommandMsgs =>
                /\ r.pc \notin CommandPcs
                /\ r.path \in {"", "intent", "aff"}
          /\ (r.pc \in DefaultPcs \cup {"affirm"} \/ r.path = "aff") =>
                ~(r.task_bot = "active" /\ r.msg \in IntentMsgs)

\* the handler of a command other than /done changes no binding
C20_Step ==
  \A t \in Threads :
    (req[t].msg \in CommandMsgs \ {"m_done"} /\ req'[t] # req[t]) =>
      /\ task_bots' = task_bots
      /\ procRuns' = procRuns

\* C20: dispatch is first-match-wins in the order commands, completion
\* intent, affirmation, default: a message that matches a command is
\* handled by that command alone, also on an active binding and with a
\* completion phrase in its text ("/remember taak is klaar" stores a fact
\* and completes nothing).
C20_FirstMatchWins == []C20_State /\ [][C20_Step]_vars

\* "/remember taak is klaar" was handled on the active binding: the fact is
\* stored and the binding still active
C20_Witness ==
  \E t \in Threads :
    LET r == req[t]
    IN  /\ r.msg \in PhraseCommands
        /\ r.token = "tA"
        /\ r.pc = "done"
        /\ Has(r.log, "remembered")
        /\ Has(Get(key_facts, "tA"), r.fact)
        /\ Contains(<<"t","a","a","k"," ","i","s"," ","k","l","a","a","r">>, r.fact)
        /\ StatusOf("tA") = "active"
        /\ procRuns["tA"] = 0

\* ----------------------------------------------------------------- C21
\* C21: a prefix command sent with an empty argument ("/remember", "/task",
\* "/share" followed by nothing or by white space only) is answered locally
\* with the usage hint; it changes no state and never reaches the reasoning
\* backend.
C21_EmptyArgumentGetsUsage ==
  /\ \A t \in Threads :
       LET r == req[t]
       IN  r.msg \in BareMsgIds =>
             /\ r.pc \in {"send_final", "done"}
             /\ r.out = "usage"
             /\ ~Has(r.log, "backend")
  /\ \A tk \in DOMAIN conversation_history :
       \A i \in 1..Len(conversation_history[tk]) :
         conversation_history[tk][i].content \notin BareMsgIds

\* ------------------------------------------------------------------ C22

\* the outcomes of the backend call that are a timeout or a failure
FailedOutcomes == {"empty", "stderr", "timeout", "raised"}

\* C22: the reasoning backend is started at most once for an event, also
\* when the call timed out or failed; the handler of a command, the
\* completion procedure and the confirmation prompt never start it.
C22_BackendAtMostOnce ==
  \A t \in Threads :
    LET r == req[t]
    IN  /\ Count(r.log, "backend") <= 1
        /\ r.backend # "" => Count(r.log, "backend") = 1
        /\ (\/ r.msg \in CommandMsgs
            \/ r.path \in {"done", "intent", "aff"}
            \/ r.pc \in CompletionPcs
            \/ Has(r.log, "prompt")
            \/ r.token = "") => ~Has(r.log, "backend")

\* an event whose backend call timed out has ended with one call made
C22_Witness ==
  \E t \in Threads :
    LET r == req[t]
    IN  /\ r.pc = "done"
        /\ r.backend = "timeout"
        /\ Count(r.log, "backend") = 1
        /\ Has(r.log, "reply")

\* ------------------------------------------------------------------ C23

\* the assistant entries an event appended to the history of its conversation
AssistantEntries(r) ==
  LET h == Get(conversation_history, r.token)
  IN  {i \in 1..Len(h) : h[i].role = "assistant" /\ h[i].ev = r.ev}

\* C23: when the backend call timed out, the reply of the event is the
\* timeout message, and once the reply is recorded and sent, the only
\* assistant entry the event appended to the history is that message.
C23_TimeoutReply ==
  \A t \in Threads :
    LET r == req[t]
        h == Get(conversation_history, r.token)
    IN  r.backend = "timeout" =>
          /\ r.response = "r_timeout"
          /\ \A i \in AssistantEntries(r) : h[i].content = "r_timeout"
          /\ r.pc = "append_reply" => AssistantEntries(r) = {}
          /\ r.pc = "done" =>
                /\ Cardinality(AssistantEntries(r)) = 1
                /\ Has(r.log, "reply")

\* a timed-out event has ended: the timeout message was appended and sent
C23_Witness ==
  \E t \in Threads :
    LET r == req[t]
        h == Get(conversation_history, r.token)
    IN  /\ r.backend = "timeout"
        /\ r.pc = "done"
        /\ r.delivered = "yes"
        /\ Len(h) >= 2
        /\ h[Len(h)].content = "r_timeout"
        /\ h[Len(h)].role = "assistant"
        /\ h[Len(h) - 1].role = "user"

\* ------------------------------------------------------------------ C24

\* the entries add_to_history keeps of all that were appended to a token
Newest(all) ==
  IF Len(all) > MAX_HISTORY_MESSAGES * 2
  THEN SubSeq(all, Len(all) - MAX_HISTORY_MESSAGES * 2 + 1, Len(all))
  ELSE all

\* memory holds every appended entry, whether its write failed or not
C24_State ==
  \A tk \in Tokens : Get(conversation_history, tk) = Newest(trace[tk])

\* a call whose write failed returned normally with the entry in memory
\* and the file untouched
C24_Step ==
  trace'["failed_writes"] > trace["failed_writes"] =>
    /\ history_file' = history_file
    /\ \E tk \in Tokens :
         LET h == Get(conversation_history', tk)
         IN  /\ Len(trace'[tk]) = Len(trace[tk]) + 1
             /\ Len(h) > 0
             /\ h[Len(h)] = trace'[tk][Len(trace'[tk])]
             /\ \A u \in Tokens \ {tk} :
                  Get(conversation_history', u) = Get(conversation_history, u)

C25_RestartYieldsSnapshot ==
  trace.loaded => conversation_history \in {trace.good, history_file}

\* ------------------------------------------------------------------ C26
\* C26: with an empty secret verify_signature returns False and raises
\* nothing, whatever the nonce, the body and the signature are, the digest
\* made with the empty key included.
C26_EmptySecretIsFalse ==
  (trace.phase # "input" /\ trace.secret = << >>) => trace.result = "False"

\* the digest made with the empty key was offered with the empty secret
C26_Witness ==
  /\ trace.phase = "verified"
  /\ trace.secret = << >>
  /\ trace.random_header # << >>
  /\ trace.signature = hmac_hexdigest(<< >>, trace.random_header \o trace.body)
  /\ trace.result = "False"

\* ------------------------------------------------------------------ C27

\* the call was made with the digest of its own secret, nonce and body
OwnDigest ==
  /\ trace.phase = "verified"
  /\ trace.signature =
       hmac_hexdigest(trace.secret, trace.random_header \o trace.body)

\* C27 as stated: for any secret, nonce and body, verify_signature accepts
\* the HMAC of the nonce followed by the body under that secret.
C27_AnySecretAccepted == OwnDigest => trace.result = "True"

\* C27: for any secret that is not empty, and any nonce and body,
\* verify_signature accepts the HMAC of the nonce followed by the body
\* under that secret.
C27_OwnDigestAccepted ==
  (OwnDigest /\ trace.secret # << >>) => trace.result = "True"

\* a digest over a nonce and a body, both not empty, was accepted
C27_Witness ==
  /\ OwnDigest
  /\ Len(trace.secret) = MaxSigLen
  /\ trace.random_header # << >>
  /\ trace.body # << >>
  /\ trace.result = "True"

\* ------------------------------------------------------------------ C28
\* C28: when one character of the body, of the nonce or of the signature
\* of an accepted call is changed, verify_signature returns False.
C28_OneChangeRejected ==
  trace.phase = "changed" => trace.result = "False"

\* ------------------------------------------------------------------ C29

\* the phrase occurs in the text, letters compared without their case
OccursIn(p, text) ==
  \E k \in 0..(Len(text) - Len(p)) :
    \A j \in 1..Len(p) : LowerChar(text[k + j]) = LowerChar(p[j])

\* the reference classifier: explicit-completion phrases first, then the
\* confirmation-seeking phrases
Reference(text) ==
  IF \E i \in 1..Len(explicit_phrases) : OccursIn(explicit_phrases[i], text)
  THEN "complete"
  ELSE IF \E j \in 1..Len(confirm_phrases) : OccursIn(confirm_phrases[j], text)
       THEN "confirm"
       ELSE "None"

\* the text holds a phrase of each list
BothLists(text) ==
  /\ \E i \in 1..Len(explicit_phrases) : OccursIn(explicit_phrases[i], text)
  /\ \E j \in 1..Len(confirm_phrases) : OccursIn(confirm_phrases[j], text)

C29_State ==
  trace.phase = "classified" =>
    /\ trace.result = Reference(trace.text)
    /\ trace.text = <<"t","a","a","k"," ","i","s"," ","k","l","a","a","r">>
          => trace.result = "complete"
    /\ trace.text = <<"i","s"," ","d","e"," ","t","a","a","k"," ",
                      "k","l","a","a","r","?">>
          => trace.result = "confirm"
    /\ trace.text = <<"h","o","e"," ","g","a","a","t"," ","h","e","t">>
          => trace.result = "None"
    /\ BothLists(trace.text) => trace.result = "complete"

\* classifying changes nothing but the result, and the same text always
\* gets the same result
C29_Step ==
  trace.phase = "input" =>
    /\ trace'.text = trace.text
    /\ trace'.result \in {"complete", "confirm", "None"}
    /\ UNCHANGED << conversation_history, history_file, key_facts,
                    key_facts_file, task_bots, req, confirmState >>

\* C29: detect_completion_intent is a pure classifier that ignores case:
\* complete when the text holds an explicit-completion phrase, else confirm
\* when it holds a confirmation-seeking phrase, else none; "taak is klaar"
\* is complete, "is de taak klaar?" is confirm, "hoe gaat het" is none, and
\* a text with phrases of both lists is complete.
C29_ClassifierIsReference == []C29_State /\ [][C29_Step]_vars

\* a text in upper case with a confirmation phrase before an explicit one
\* was classified complete
C29_Witness ==
  /\ trace.phase = "classified"
  /\ Len(trace.text) > Len(confirm_phrases[6])
  /\ BothLists(trace.text)
  /\ trace.text # lower(trace.text)
  /\ OccursIn(confirm_phrases[6], SubSeq(trace.text, 1, Len(confirm_phrases[6])))
  /\ trace.result = "complete"

\* ------------------------------------------------------------------ C30

\* the positions of the lines of one kind
LinesOf(lines, kind) == {i \in 1..Len(lines) : lines[i].kind = kind}

\* C30: the rendered context has the key facts first, numbered from 1 in
\* stored order and before every history line; its history lines are the
\* last 50 messages of the token, in order; and it is empty exactly when
\* the token has no fact and no history.
C30_ContextRendering ==
  trace.phase = "rendered" =>
    LET lines == trace.lines
        facts == Get(key_facts, "tA")
        h == Get(conversation_history, "tA")
        shown == IF Len(h) > 50 THEN 50 ELSE Len(h)
        factAt == LinesOf(lines, "fact")
        msgAt == LinesOf(lines, "message")
    IN  /\ Cardinality(factAt) = Len(facts)
        /\ \A i \in 1..Len(facts) :
             /\ lines[i + 1].kind = "fact"
             /\ lines[i + 1].num = i
             /\ lines[i + 1].fact = facts[i]
        /\ \A i \in factAt, j \in msgAt : i < j
        /\ Cardinality(msgAt) = shown
        /\ \A j \in msgAt :
             LET k == Cardinality({x \in msgAt : x <= j})
             IN  lines[j].ev = h[Len(h) - shown + k].ev
        /\ (lines = << >>) <=> (facts = << >> /\ h = << >>)

\* facts and more than 50 messages were rendered
C30_Witness ==
  /\ trace.phase = "rendered"
  /\ Len(Get(key_facts, "tA")) = MaxCtxFacts
  /\ Len(Get(conversation_history, "tA")) > 50
  /\ Cardinality(LinesOf(trace.lines, "message")) = 50
  /\ trace.lines[1].kind = "facts_header"

C32_ShortTextUnchanged ==
  (trace.phase = "truncated" /\ Len(trace.content) <= trace.max_length) =>
    trace.result = trace.content

\* a content of exactly 500 characters was returned whole
C32_Witness ==
  /\ trace.phase = "truncated"
  /\ trace.max_length = 500
  /\ Len(trace.content) = 500
  /\ Len(trace.result) = 500
  /\ trace.result[251] = trace.content[251]

\* ------------------------------------------------------------------ C33

\* the commands that are documented to change nothing in the store
ReadOnlyMsgs ==
  {"m_history", "m_whoami", "m_facts", "m_boards", "m_help", "m_status",
   "m_task", "m_share", "m_upload", "m_zoek", "m_vind", "m_preview_lh",
   "m_preview_lp", "m_preview_nh", "m_preview_np", "m_transcribe"}

\* the dictionaries agree on every token but one
SameButFor(d, e, token) ==
  \A tk \in Tokens \ {token} : (tk \in DOMAIN d) = (tk \in DOMAIN e)
                                /\ Get(d, tk) = Get(e, tk)

\* what every step of a command's handler leaves as it was
C33_Step ==
  \A t \in Threads :
    LET r == req[t]
    IN  /\ r.msg \in ReadOnlyMsgs =>
              /\ conversation_history' = conversation_history
              /\ key_facts' = key_facts
        /\ r.msg = "m_reset" =>
              /\ key_facts' = key_facts
              /\ SameButFor(conversation_history', conversation_history, r.token)
        /\ r.msg \in {"m_remember", "m_forget"} =>
              /\ conversation_history' = conversation_history
              /\ SameButFor(key_facts', key_facts, r.token)

\* a handler that has returned has left its mark, or none
C33_State ==
  \A t \in Threads :
    LET r == req[t]
    IN  (r.pc = "done" /\ r.msg \in CmdMsgIds) =>
          /\ r.resp \in {200, 500}
          /\ r.msg = "m_reset" => r.token \notin DOMAIN conversation_history

\* C33: the handlers of /history, /whoami, /facts, /boards, /help, /status,
\* /task, /share, /upload, /zoek, /vind, /preview and /transcribe leave the
\* history and the key facts of every token as they were; /reset removes
\* the history of its own token only and leaves the key facts; /remember
\* and /forget change the key facts of their own token only and leave the
\* history.
C33_HandlersChangeOnlyTheirOwn == []C33_State /\ [][C33_Step]_vars

\* /reset was handled in tA: its history is gone, the history of tB and
\* all key facts are there
C33_Witness ==
  \E t \in Threads :
    LET r == req[t]
    IN  /\ r.msg = "m_reset"
        /\ r.token = "tA"
        /\ r.pc = "done"
        /\ "tA" \notin DOMAIN conversation_history
        /\ Len(Get(conversation_history, "tB")) = 1
        /\ Len(Get(key_facts, "tA")) = 2

\* ------------------------------------------------------------------ C34
\* C34: an affirmation runs the completion procedure only when the latest
\* history entry of the conversation is the assistant entry the confirm
\* step recorded; a user message or an ordinary reply of the backend at
\* the end of the history is no pending confirmation, whatever its text.
C34_OnlyThePromptIsPending ==
  \A t \in Threads :
    (req[t].path = "aff" /\ req[t].pc \in CompletionPcs) =>
      PromptIsTail(req[t].token)

\* ------------------------------------------------------------------ C35
\* C35: the history is read and written only by a thread that holds
\* history_lock, and the list of key facts of a token is read and written
\* only by a thread that holds facts_lock: no handler goes through a list
\* of the store outside its lock while another thread may change it.
C35_ListsReadUnderLock ==
  \A t \in Threads : req[t].pc = "facts_iter" => facts_lock = t

\* ------------------------------------------------------------------ C36

\* the calls on a token that have appended their entry, in the order in
\* which they took the lock
Appended(tk) ==
  LET pendingEv == {req[t].ev : t \in {u \in Threads :
                                         req[u].pc \in {"check", "create", "append"}}}
      Mine(e) == e.token = tk /\ e.ev \notin pendingEv
      calls == SelectSeq(trace, Mine)
  IN  [i \in 1..Len(calls) |-> calls[i].ev]

\* a thread is between the append and the cap of a call on the token
Capping(tk) ==
  \E t \in Threads : req[t].pc = "cap" /\ req[t].token = tk

\* C36: under any interleaving of add_to_history calls the entries of a
\* token are those of the calls that appended, each once and in the order
\* in which the calls took the lock, less the oldest ones the cap of
\* 2 * 50 has dropped: no entry is lost and none is there twice.
C36_AppendsInLockOrder ==
  \A tk \in Tokens :
    LET calls == Appended(tk)
        h == Get(conversation_history, tk)
        evs == [i \in 1..Len(h) |-> h[i].ev]
        cap == IF Capping(tk) THEN 101 ELSE 100
        kept == IF Len(calls) > cap THEN cap ELSE Len(calls)
    IN  /\ Len(evs) = kept
        /\ \A i \in 1..kept : evs[i] = calls[Len(calls) - kept + i]

\* four calls of two threads on tA were made at the cap: the two oldest
\* entries are gone, the four new ones are at the end in lock order
C36_Witness ==
  LET h == Get(conversation_history, "tA")
  IN  /\ Len(trace) = 103
      /\ \A t \in Threads : req[t].pc = "idle"
      /\ Len(h) = 100
      /\ h[1].ev = 4
      /\ h[100].ev = 103
      /\ \A e \in 100..103 : trace[e].token = "tA"

\* ------------------------------------------------------------------ C37

\* the messages with a completion or confirmation phrase that are no command
PhraseMsgs == IntentMsgs \ CommandMsgs

\* the binding lookup of a phrase message on a conversation whose binding
\* is completed or absent leads to the default path, and no step of a
\* request that found no active binding changes a binding
C37_Step ==
  \A t \in Threads :
    LET r == req[t]
    IN  /\ ( /\ r.pc = "lookup" /\ req'[t] # r
             /\ r.msg \in PhraseMsgs
             /\ StatusOf(r.token) # "active" ) =>
              /\ req'[t].pc = "default"
              /\ req'[t].task_bot \in {"None", "completed"}
        /\ ( /\ r.msg \in PhraseMsgs /\ req'[t] # r
             /\ r.pc \notin {"idle", "lookup"}
             /\ r.task_bot # "active" ) =>
              /\ task_bots' = task_bots
              /\ procRuns' = procRuns

\* such a request is on the default path or has finished it: no step of
\* the completion procedure, no prompt, and the turn is recorded
C37_State ==
  \A t \in Threads :
    LET r == req[t]
    IN  ( /\ r.msg \in PhraseMsgs
          /\ r.pc \notin {"idle", "lookup"}
          /\ r.task_bot # "active" ) =>
            /\ r.pc \in DefaultPcs \cup {"done"}
            /\ r.path = ""
            /\ \A i \in 1..Len(r.log) :
                 r.log[i] \notin {"prompt", "db_commit", "db_error",
                                  "task_done", "task_error", "delete_room"}
            /\ r.pc = "done" => Has(r.log, "hist_user") /\ Has(r.log, "backend")

HistoryLockPcs ==
  {"reset", "history", "confirm", "confirm_record", "affirm", "default",
   "render_history", "append_reply"}

FactsLockPcs == {"remember", "facts", "forget", "render_facts"}

\* the request of the thread can take its next step
Runnable(t) == ENABLED Handle(t, {"answer"})

\* C38: no thread holds history_lock and facts_lock at the same time, a
\* thread that holds a lock is at no position that enters a with block, and
\* so no interleaving of the requests deadlocks: the holder of a lock can
\* always go on, and while a request is being handled some thread can take
\* a step.
C38_NoDeadlock ==
  /\ \A t \in Threads :
       /\ ~(history_lock = t /\ facts_lock = t)
       /\ history_lock = t =>
            /\ req[t].path = "aff"
            /\ req[t].pc \in CompletionPcs
       /\ facts_lock = t => req[t].pc = "forget_send"
       /\ (history_lock = t \/ facts_lock = t) =>
            /\ req[t].pc \notin HistoryLockPcs \cup FactsLockPcs
            /\ Runnable(t) \/ \E u \in Threads : req[u].pc = "done"
  /\ (\E t \in Threads : req[t].pc # "idle") =>
       \E t \in Threads : req[t].pc # "idle" /\ Runnable(t)

\* one thread is inside the with block of the affirmation path while the
\* other is inside that of /forget, and both can go on
C38_Witness ==
  \E t, u \in Threads :
    /\ t # u
    /\ history_lock = t
    /\ req[t].pc = "ct_notify"
    /\ facts_lock = u
    /\ Runnable(t)
    /\ Runnable(u)

\* ------------------------------------------------------------------ C39

\* a request that has returned holds no lock
C39_ReturnedHoldsNoLock ==
  \A t \in Threads :
    req[t].pc \in {"idle", "done"} => history_lock # t /\ facts_lock # t

C40_IsolatedByToken ==
  [][ \A tk \in Tokens :
        ( \/ (tk \in DOMAIN conversation_history') #
                (tk \in DOMAIN conversation_history)
          \/ Get(conversation_history', tk) # Get(conversation_history, tk)
          \/ (tk \in DOMAIN key_facts') # (tk \in DOMAIN key_facts)
          \/ Get(key_facts', tk) # Get(key_facts, tk) ) =>
          \E t \in Threads : req'[t] # req[t] /\ req[t].token = tk ]_vars

\* a /reset for tA has removed its history while the other thread is in
\* an ordinary turn of tB and has recorded the message: tB has its two
\* entries and its fact, tA still has its facts
C40_Witness ==
  \E t, u \in Threads :
    /\ req[t].token = "tA"
    /\ req[t].msg = "m_reset"
    /\ req[t].pc = "send_final"
    /\ "tA" \notin DOMAIN conversation_history
    /\ Len(Get(key_facts, "tA")) = 2
    /\ req[u].token = "tB"
    /\ req[u].pc = "render_facts"
    /\ Len(Get(conversation_history, "tB")) = 2
    /\ Len(Get(key_facts, "tB")) = 1

====
